---- MODULE Spec2Model ----
(***************************************************************************)
(* Model of the slide-builder pipeline: the session store                  *)
(* (slide_mcp/session.py), slide validation (slide_mcp/utils.py), the      *)
(* export dispatcher (slide_mcp/exporters/__init__.py), the Curator and    *)
(* Editor agents and the Orchestrator (slide_mcp/agents/).                 *)
(*                                                                         *)
(* Conventions.  A Python string that the code inspects character by       *)
(* character (a session id) is a sequence of one-character strings.  A     *)
(* filesystem path is the sequence of its "/"-separated segments.  A key   *)
(* missing from a dict is the value Absent.  Timestamps are readings of    *)
(* the integer clock `now`; 0 is the empty string.                         *)
(***************************************************************************)
EXTENDS Integers, Sequences, FiniteSets, TLC

VARIABLES
    store,          \* sessions_dir: file name -> JSON document
    touched,        \* every file name a store operation has built a path for
    now,            \* datetime.now()
    pc,             \* position of the create_presentation call in flight
    ctx,            \* its ConversationContext
    sess,           \* its in-memory PresentationSession
    env,            \* what the collaborators of the call in flight will answer
    trace,          \* phases and saves the call in flight has executed
    agent_results,  \* phase -> AgentResult returned in the call in flight
    last,           \* the last completed operation and how it ended
    export_log,     \* the last export_all call: arguments, results, exporter calls
    workers,        \* the orchestrator calls running side by side: worker -> frame
    presentations,  \* _presentations of the HTTP layer: session id -> record
    progress,       \* _progress: session id -> its asyncio.Queue object
    queues,         \* the Queue objects: object -> the events waiting in it
    task,           \* frame of the background task process_presentation
    stream          \* frame of stream_progress and its event_generator

vars == <<store, touched, now, pc, ctx, sess, env, trace, agent_results, last, export_log,
          workers, presentations, progress, queues, task, stream>>

\* ---------------------------------------------------------------- bounds
MaxClock == 5
MaxFormats == 3
MaxSlides == 3

\* ------------------------------------------------------- program constants
MaxIdLen == 32
UuidLen == 12
MaxBullets == 6
MaxCards == 6

\* ---------------------------------------------------------------- helpers
Absent == "<absent>"
None == "<None>"

Put(f, k, v) == [x \in (DOMAIN f) \cup {k} |-> IF x = k THEN v ELSE f[x]]

EmptyMap == [x \in {} |-> None]

Update(f, g) == [x \in (DOMAIN f) \cup (DOMAIN g) |-> IF x \in DOMAIN g THEN g[x] ELSE f[x]]

IsPrefix(s, t) == Len(s) <= Len(t) /\ SubSeq(t, 1, Len(s)) = s

Take(s, n) == SubSeq(s, 1, IF Len(s) < n THEN Len(s) ELSE n)

Range(s) == {s[i] : i \in DOMAIN s}

RECURSIVE SeqsUpTo(_, _)
SeqsUpTo(S, n) ==
    IF n = 0 THEN {<<>>}
    ELSE LET shorter == SeqsUpTo(S, n - 1)
         IN  shorter \cup {Append(s, x) : s \in {q \in shorter : Len(q) = n - 1}, x \in S}

\* ------------------------------------------------------- slide validation
VALID_SLIDE_TYPES == {"title", "content", "feature_grid", "code", "quote", "image", "closing"}


\* the card loop without the "description" default
validate_card_title_only(card) ==
    [title |-> IF card.title = Absent THEN "" ELSE card.title,
     description |-> card.description]

\* the card loop of validate_slides: fill the missing keys
validate_card(card) ==
    [title |-> IF card.title = Absent THEN "" ELSE card.title,
     description |-> IF card.description = Absent THEN "" ELSE card.description]


\* the per-slide loop body with bullets[:-1] in place of bullets[:6]
validate_slide_drops_bullet(slide) ==
    [type |-> IF slide.type \notin VALID_SLIDE_TYPES THEN "content" ELSE slide.type,
     title |-> IF slide.title \in {Absent, ""} THEN "Untitled Slide" ELSE slide.title,
     bullets |-> IF slide.bullets # <<>> THEN SubSeq(slide.bullets, 1, Len(slide.bullets) - 1)
                 ELSE slide.bullets,
     cards |-> IF slide.cards # <<>>
               THEN [i \in 1..Len(Take(slide.cards, MaxCards)) |-> validate_card(slide.cards[i])]
               ELSE slide.cards]

\* the per-slide loop body of validate_slides
validate_slide(slide) ==
    [type |-> IF slide.type \notin VALID_SLIDE_TYPES THEN "content" ELSE slide.type,
     title |-> IF slide.title \in {Absent, ""} THEN "Untitled Slide" ELSE slide.title,
     bullets |-> IF slide.bullets # <<>> THEN Take(slide.bullets, MaxBullets) ELSE slide.bullets,
     cards |-> IF slide.cards # <<>>
               THEN [i \in 1..Len(Take(slide.cards, MaxCards)) |-> validate_card(slide.cards[i])]
               ELSE slide.cards]

force_first_title(slides) ==
    IF slides[1].type # "title" THEN [slides EXCEPT ![1].type = "title"] ELSE slides

force_last_closing(slides) ==
    IF slides[Len(slides)].type # "closing"
    THEN [slides EXCEPT ![Len(slides)].type = "closing"] ELSE slides


\* validate_slides with the two final checks in the other order
validate_slides_title_last(slides) ==
    IF slides = <<>> THEN slides
    ELSE force_first_title(force_last_closing([i \in 1..Len(slides) |-> validate_slide(slides[i])]))

validate_slides(slides) ==
    IF slides = <<>> THEN slides
    ELSE force_last_closing(force_first_title([i \in 1..Len(slides) |-> validate_slide(slides[i])]))

\* ------------------------------------------------------------------ paths
Dot == <<".">>
Cwd == <<"", "cwd">>
OutDir == <<"", "out">>

\* Path.resolve(): a relative path is taken from the working directory
resolve(p) ==
    IF p # <<>> /\ p[1] = "" THEN p
    ELSE IF p # <<>> /\ p[1] = "." THEN Cwd \o Tail(p)
    ELSE Cwd \o p

\* s.rsplit("/", 1)[0]
rsplit_head(p) == IF Len(p) > 1 THEN SubSeq(p, 1, Len(p) - 1) ELSE p

\* ---------------------------------------------------------------- exporters
EXPORTERS == {"html", "pptx", "pdf"}

\* fmt.lower().strip()
lower_strip(fmt) ==
    CASE fmt = "PDF " -> "pdf"
      [] fmt = "Html" -> "html"
      [] OTHER -> fmt

\* f"{safe_name}.{fmt}"
file_name(fmt) ==
    CASE fmt = "html" -> "deck.html"
      [] fmt = "pptx" -> "deck.pptx"
      [] fmt = "pdf" -> "deck.pdf"
      [] OTHER -> "deck"

\* f"ERROR: {e}"
error_marker == <<"ERROR: boom">>

is_error(p) == p = error_marker

Call(exporter, arg, ok) == [exporter |-> exporter, arg |-> arg, ok |-> ok]

\* one iteration of the loop of export_all; acc = [results, calls];
\* bad = the exporters that raise during this export_all call
export_one(acc, raw, output_dir, bad) ==
    LET fmt == lower_strip(raw)
        output_path == output_dir \o <<file_name(fmt)>>
        results == acc.results
    IN  IF fmt \notin EXPORTERS THEN acc
        ELSE IF fmt \in {"html", "pptx"} THEN
            IF fmt \in bad
            THEN [results |-> Put(results, fmt, error_marker),
                  calls |-> Append(acc.calls, Call(fmt, output_path, FALSE))]
            ELSE [results |-> Put(results, fmt, resolve(output_path)),
                  calls |-> Append(acc.calls, Call(fmt, output_path, TRUE))]
        ELSE \* pdf is generated from the HTML output
            LET have_html == "html" \in DOMAIN results
                html_path == IF have_html THEN results["html"]
                             ELSE output_dir \o <<file_name("html")>>
                calls1 == IF have_html THEN acc.calls
                          ELSE Append(acc.calls, Call("html", html_path, "html" \notin bad))
            IN  IF ~have_html /\ "html" \in bad
                THEN [results |-> Put(results, "pdf", error_marker), calls |-> calls1]
                ELSE \* export_pdf raises when the HTML file does not exist
                    IF "pdf" \in bad \/ is_error(html_path)
                    THEN [results |-> Put(results, "pdf", error_marker),
                          calls |-> Append(calls1, Call("pdf", html_path, FALSE))]
                    ELSE [results |-> Put(results, "pdf", resolve(output_path)),
                          calls |-> Append(calls1, Call("pdf", html_path, TRUE))]


\* export_all whose loop ends at the first exporter that raises
RECURSIVE export_loop_stops(_, _, _, _)
export_loop_stops(acc, formats, output_dir, bad) ==
    IF formats = <<>> \/ \E f \in DOMAIN acc.results : is_error(acc.results[f]) THEN acc
    ELSE export_loop_stops(export_one(acc, Head(formats), output_dir, bad),
                           Tail(formats), output_dir, bad)

RECURSIVE export_loop(_, _, _, _)
export_loop(acc, formats, output_dir, bad) ==
    IF formats = <<>> THEN acc
    ELSE export_loop(export_one(acc, Head(formats), output_dir, bad),
                     Tail(formats), output_dir, bad)

\* export_all: formats = formats or ["html"]
export_all(output_dir, formats, bad) ==
    export_loop([results |-> EmptyMap, calls |-> <<>>],
                IF formats = <<>> THEN <<"html">> ELSE formats, output_dir, bad)

ExportLog(output_dir, formats, bad) ==
    LET r == export_all(output_dir, formats, bad)
    IN  [output_dir |-> output_dir, formats |-> formats, bad |-> bad,
         results |-> r.results, calls |-> r.calls]

NoExport == [output_dir |-> Dot, formats |-> <<>>, bad |-> {}, results |-> EmptyMap, calls |-> <<>>]

\* ------------------------------------------------------------------ session
DefaultFields ==
    [id |-> <<>>, topic |-> "", purpose |-> "presentation", research_data |-> EmptyMap,
     slides |-> <<>>, presentation_title |-> "", style_name |-> "",
     custom_preset |-> None, output_paths |-> EmptyMap, edit_history |-> <<>>,
     created_at |-> 0, updated_at |-> 0, urls |-> <<>>, files |-> <<>>,
     mood |-> "", audience |-> "", slide_count |-> 10, output_formats |-> <<"html">>]

\* PresentationSession.__post_init__; uuid = uuid.uuid4().hex[:12], t = datetime.now()
post_init(s, uuid, t) ==
    [s EXCEPT !.id = IF s.id = <<>> THEN uuid ELSE s.id,
              !.created_at = IF s.created_at = 0 THEN t ELSE s.created_at,
              !.updated_at = IF s.updated_at = 0 THEN t ELSE s.updated_at]

\* PresentationSession(**kwargs)
PresentationSession(kwargs, uuid, t) == post_init(Update(DefaultFields, kwargs), uuid, t)


\* to_dict that leaves the research data out of the document
to_dict_without_research(s) ==
    [id |-> s.id, topic |-> s.topic, purpose |-> s.purpose,
     slides |-> s.slides,
     presentation_title |-> s.presentation_title, style_name |-> s.style_name,
     custom_preset |-> s.custom_preset, output_paths |-> s.output_paths,
     edit_history |-> s.edit_history, created_at |-> s.created_at,
     updated_at |-> s.updated_at, urls |-> s.urls, files |-> s.files,
     mood |-> s.mood, audience |-> s.audience, slide_count |-> s.slide_count,
     output_formats |-> s.output_formats]

to_dict(s) ==
    [id |-> s.id, topic |-> s.topic, purpose |-> s.purpose,
     research_data |-> s.research_data, slides |-> s.slides,
     presentation_title |-> s.presentation_title, style_name |-> s.style_name,
     custom_preset |-> s.custom_preset, output_paths |-> s.output_paths,
     edit_history |-> s.edit_history, created_at |-> s.created_at,
     updated_at |-> s.updated_at, urls |-> s.urls, files |-> s.files,
     mood |-> s.mood, audience |-> s.audience, slide_count |-> s.slide_count,
     output_formats |-> s.output_formats]


\* from_dict that keeps the timestamps __post_init__ has just set
from_dict_fresh_timestamps(data, uuid, t) ==
    LET session == PresentationSession(EmptyMap, uuid, t)
        allowed == (DOMAIN DefaultFields) \ {"created_at", "updated_at"}
    IN  [f \in DOMAIN session |->
            IF f \in DOMAIN data /\ f \in allowed THEN data[f] ELSE session[f]]

\* session = cls(); setattr for every known key of data
from_dict(data, uuid, t) ==
    LET session == PresentationSession(EmptyMap, uuid, t)
        allowed == DOMAIN DefaultFields
    IN  [f \in DOMAIN session |->
            IF f \in DOMAIN data /\ f \in allowed THEN data[f] ELSE session[f]]


\* add_edit that assigns a new list instead of appending
add_edit_overwrites(s, instruction, summary, t) ==
    [s EXCEPT !.edit_history = <<[instruction |-> instruction,
                                  summary |-> summary, timestamp |-> t]>>,
              !.updated_at = t]

add_edit(s, instruction, summary, t) ==
    [s EXCEPT !.edit_history = Append(@, [instruction |-> instruction,
                                          summary |-> summary, timestamp |-> t]),
              !.updated_at = t]

\* ------------------------------------------------------------ session store
HexChars == {"a", "b", "c", "d", "e", "f", "0", "1", "2", "3", "4", "5", "6", "7", "8", "9"}

\* _SESSION_ID_RE.match(session_id) for ^[a-f0-9]{1,32}$ : in Python "$" matches
\* at the end of the string and also just before a newline that ends the string
SessionIdMatch(session_id) ==
    \E n \in 1..MaxIdLen :
        /\ n <= Len(session_id)
        /\ \A i \in 1..n : session_id[i] \in HexChars
        /\ \/ n = Len(session_id)
           \/ n = Len(session_id) - 1 /\ session_id[Len(session_id)] = "\n"

\* SessionManager._session_path: the file name inside sessions_dir
session_path(session_id) ==
    IF ~SessionIdMatch(session_id)
    THEN [exc |-> "ValueError", path |-> <<>>]
    ELSE [exc |-> "none", path |-> session_id \o <<".json">>]

\* SessionManager.save; fs = [store, touched]
save(fs, session, t) ==
    LET s == [session EXCEPT !.updated_at = t]
        p == session_path(s.id)
    IN  IF p.exc # "none"
        THEN [exc |-> p.exc, store |-> fs.store, touched |-> fs.touched, session |-> s]
        ELSE [exc |-> "none", store |-> Put(fs.store, p.path, to_dict(s)),
              touched |-> fs.touched \cup {p.path}, session |-> s]

\* SessionManager.load
load(fs, session_id, uuid, t) ==
    LET p == session_path(session_id)
    IN  IF p.exc # "none"
        THEN [exc |-> p.exc, touched |-> fs.touched, session |-> None]
        ELSE IF p.path \notin DOMAIN fs.store
        THEN [exc |-> "FileNotFoundError", touched |-> fs.touched \cup {p.path}, session |-> None]
        ELSE [exc |-> "none", touched |-> fs.touched \cup {p.path},
              session |-> from_dict(fs.store[p.path], uuid, t)]

\* SessionManager.delete
delete(fs, session_id) ==
    LET p == session_path(session_id)
    IN  IF p.exc # "none"
        THEN [exc |-> p.exc, store |-> fs.store, touched |-> fs.touched, ret |-> FALSE]
        ELSE [exc |-> "none",
              store |-> [f \in (DOMAIN fs.store) \ {p.path} |-> fs.store[f]],
              touched |-> fs.touched \cup {p.path},
              ret |-> p.path \in DOMAIN fs.store]

\* ord(c) for the characters a stored file's name can hold
Ord(c) ==
    CASE c = "\n" -> 10 [] c = "." -> 46
      [] c = "0" -> 48 [] c = "1" -> 49 [] c = "2" -> 50 [] c = "3" -> 51 [] c = "4" -> 52
      [] c = "5" -> 53 [] c = "6" -> 54 [] c = "7" -> 55 [] c = "8" -> 56 [] c = "9" -> 57
      [] c = "a" -> 97 [] c = "b" -> 98 [] c = "c" -> 99 [] c = "d" -> 100
      [] c = "e" -> 101 [] c = "f" -> 102 [] c = "j" -> 106 [] c = "n" -> 110
      [] c = "o" -> 111 [] c = "s" -> 115

\* the characters of the file name <id>.json
name_chars(f) == SubSeq(f, 1, Len(f) - 1) \o <<".", "j", "s", "o", "n">>

\* a < b for Python strings
RECURSIVE str_less(_, _)
str_less(a, b) ==
    IF b = <<>> THEN FALSE
    ELSE IF a = <<>> THEN TRUE
    ELSE IF Ord(Head(a)) # Ord(Head(b)) THEN Ord(Head(a)) < Ord(Head(b))
    ELSE str_less(Tail(a), Tail(b))

\* sorted(paths, reverse=True)
RECURSIVE sorted_reverse(_)
sorted_reverse(files) ==
    IF files = {} THEN <<>>
    ELSE LET top == CHOOSE f \in files :
                        \A g \in files \ {f} : str_less(name_chars(g), name_chars(f))
         IN  <<top>> \o sorted_reverse(files \ {top})

\* SessionManager.list_sessions
list_sessions(fs) ==
    LET paths == sorted_reverse(DOMAIN fs.store)
    IN  [i \in 1..Len(paths) |->
            [id |-> fs.store[paths[i]].id, topic |-> fs.store[paths[i]].topic,
             style |-> fs.store[paths[i]].style_name,
             slides |-> Len(fs.store[paths[i]].slides),
             updated |-> fs.store[paths[i]].updated_at]]

\* SessionManager.latest; id = <<>> stands for the answer None
latest(fs, uuid, t) ==
    LET sessions == list_sessions(fs)
    IN  IF sessions = <<>>
        THEN [exc |-> "none", touched |-> fs.touched, id |-> <<>>, session |-> None]
        ELSE LET l == load(fs, sessions[1].id, uuid, t)
             IN  [exc |-> l.exc, touched |-> l.touched, id |-> sessions[1].id,
                  session |-> l.session]

\* SessionManager.create
create(fs, kwargs, uuid, t) == save(fs, PresentationSession(kwargs, uuid, t), t)

FS == [store |-> store, touched |-> touched]

\* ------------------------------------------------------------------ agents
DefaultContext ==
    [topic |-> "", purpose |-> "presentation", urls |-> <<>>, files |-> <<>>,
     slide_count |-> 10, mood |-> "", audience |-> "", extra_instructions |-> "",
     research_data |-> EmptyMap, slides |-> <<>>, presentation_title |-> "",
     style_name |-> "", style_recommendations |-> <<>>, custom_preset |-> None,
     pptx_template_path |-> None, output_dir |-> Dot, output_formats |-> <<"html">>,
     output_paths |-> EmptyMap, edit_history |-> <<>>, edit_instruction |-> ""]

ConversationContext(kwargs) == Update(DefaultContext, kwargs)

\* llm = the number of LLM calls the agent issued
AgentResult(success, data, error, llm) ==
    [success |-> success, data |-> data, error |-> error, llm |-> llm]

\* ---- Researcher.  answer = [url, file : one outcome per item, search : one
\* outcome, synth : BOOLEAN]; an outcome is "content", "empty" or "raise"
\* one source per item that yielded content; an empty or raising item is skipped
RECURSIVE gathered(_, _, _)
gathered(type, items, outcomes) ==
    IF items = <<>> THEN <<>>
    ELSE (IF Head(outcomes) = "content"
          THEN <<[type |-> type, source |-> Head(items)]>> ELSE <<>>)
         \o gathered(type, Tail(items), Tail(outcomes))

research_sources(context, answer) ==
    LET found == gathered("url", context.urls, answer.url)
                 \o gathered("file", context.files, answer.file)
                 \o gathered("web_search", <<context.topic>>, <<answer.search>>)
    IN  IF found = <<>>
        THEN <<[type |-> "llm_knowledge", source |-> "LLM general knowledge"]>>
        ELSE found

\* Researcher.run that gives up when a source raised
researcher_run_strict(context, answer) ==
    LET sources == research_sources(context, answer)
    IN  IF ~answer.synth \/ "raise" \in Range(answer.url) \cup Range(answer.file) \cup {answer.search}
        THEN AgentResult(FALSE, EmptyMap, <<"Research synthesis failed">>, 1)
        ELSE AgentResult(TRUE, [title_suggestion |-> "Suggested", raw_sources |-> sources],
                         <<>>, 1)

researcher_run(context, answer) ==
    LET sources == research_sources(context, answer)
    IN  IF ~answer.synth
        THEN AgentResult(FALSE, EmptyMap, <<"Research synthesis failed">>, 1)
        ELSE AgentResult(TRUE, [title_suggestion |-> "Suggested", raw_sources |-> sources],
                         <<>>, 1)

\* ---- Curator.  raw = [kind, slides] is what llm.generate answers:
\*   "raise"         the call raises
\*   "garbage"       text holding no JSON
\*   "array"         a JSON array of slide objects
\*   "object_slides" a JSON object with a "slides" array
\*   "object"        one JSON object without "slides" (slides = <<that object>>)
\*   "scalar"        a JSON number
parse_slides_response(raw) ==
    CASE raw.kind = "garbage" -> [exc |-> "ValueError", slides |-> <<>>, dicts |-> TRUE]
      [] raw.kind = "scalar" -> [exc |-> "none", slides |-> <<>>, dicts |-> FALSE]
      [] OTHER -> [exc |-> "none", slides |-> raw.slides, dicts |-> TRUE]

determine_title(context, research, slides) ==
    IF slides # <<>> /\ slides[1].title \notin {Absent, ""} THEN slides[1].title
    ELSE IF "title_suggestion" \in DOMAIN research /\ research.title_suggestion # ""
    THEN research.title_suggestion
    ELSE context.topic

curator_run(context, raw) ==
    LET research == context.research_data
        parsed == parse_slides_response(raw)
    IN  IF research = EmptyMap
        THEN AgentResult(FALSE, EmptyMap,
                         <<"No research data available. Run the Research Agent first.">>, 0)
        ELSE IF raw.kind = "raise" \/ parsed.exc # "none" \/ ~parsed.dicts
        THEN AgentResult(FALSE, EmptyMap, <<"Curation failed: ", raw.kind>>, 1)
        ELSE LET slides == validate_slides(parsed.slides)
             IN  AgentResult(TRUE,
                    [slides |-> slides,
                     presentation_title |-> determine_title(context, research, slides),
                     slide_count |-> Len(slides)],
                    <<>>, 1)


\* _apply_edit that returns the model's slides as they came
apply_edit_unvalidated(slides, instruction, resp) ==
    CASE resp.kind = "raise" -> [exc |-> "LLMError", slides |-> <<>>, summary |-> ""]
      [] resp.kind = "object_slides" ->
            [exc |-> "none", slides |-> resp.slides,
             summary |-> IF resp.summary = Absent THEN "Slides updated" ELSE resp.summary]
      [] resp.kind = "object_text" -> [exc |-> "AttributeError", slides |-> <<>>, summary |-> ""]
      [] resp.kind = "array" ->
            [exc |-> "none", slides |-> resp.slides, summary |-> "Slides updated"]
      [] OTHER -> [exc |-> "ValueError", slides |-> <<>>, summary |-> ""]

\* ---- Editor.  resp = [kind, slides, summary] is what llm.generate_json answers:
\*   "raise"         the call or its JSON parsing raises
\*   "object_slides" an object with a "slides" list of slide objects
\*   "object_text"   an object whose "slides" value is not a list of objects
\*   "array"         a bare list of slide objects
\*   "object"        an object without "slides"
apply_edit(slides, instruction, resp) ==
    CASE resp.kind = "raise" -> [exc |-> "LLMError", slides |-> <<>>, summary |-> ""]
      [] resp.kind = "object_slides" ->
            [exc |-> "none", slides |-> validate_slides(resp.slides),
             summary |-> IF resp.summary = Absent THEN "Slides updated" ELSE resp.summary]
      [] resp.kind = "object_text" -> [exc |-> "AttributeError", slides |-> <<>>, summary |-> ""]
      [] resp.kind = "array" ->
            [exc |-> "none", slides |-> validate_slides(resp.slides), summary |-> "Slides updated"]
      [] OTHER -> [exc |-> "ValueError", slides |-> <<>>, summary |-> ""]

editor_run(context, resp) ==
    IF context.edit_instruction = ""
    THEN AgentResult(FALSE, EmptyMap, <<"No edit instruction provided.">>, 0)
    ELSE IF context.slides = <<>>
    THEN AgentResult(FALSE, EmptyMap, <<"No slides to edit. Generate slides first.">>, 0)
    ELSE LET e == apply_edit(context.slides, context.edit_instruction, resp)
         IN  IF e.exc # "none"
             THEN AgentResult(FALSE, EmptyMap, <<"Edit failed: ", e.exc>>, 1)
             ELSE AgentResult(TRUE,
                    [slides |-> e.slides, change_summary |-> e.summary,
                     edit_instruction |-> context.edit_instruction],
                    <<>>, 1)

\* ---- StyleRecommender
ALL_PRESET_NAMES ==
    <<"bold_signal", "electric_studio", "creative_voltage", "dark_botanical",
      "notebook_tabs", "pastel_geometry", "split_pastel", "vintage_editorial",
      "neon_cyber", "terminal_green">>

DefaultTriple == <<"bold_signal", "notebook_tabs", "neon_cyber">>

\* a style name of 300 characters: "<name>.json" is longer than a file name may be
LongStyleName == "a * 300"

\* how load_preset(name) ends: path.exists() answers False for a missing file
\* and raises OSError (ENAMETOOLONG) for a name the file system cannot hold
load_preset(name) ==
    IF name = LongStyleName THEN "OSError"
    ELSE IF name \in Range(ALL_PRESET_NAMES) THEN "ok"
    ELSE "FileNotFoundError"

\* presets_for_mood on the moods the model uses: "calm" is a key of MOOD_MAP,
\* "very calm" contains the key "calm", "cal" is contained in the key "calm",
\* "zzz" matches no key
presets_for_mood(mood) ==
    CASE mood \in {"calm", "very calm", "cal"} ->
            <<"notebook_tabs", "vintage_editorial", "pastel_geometry">>
      [] OTHER -> DefaultTriple

\* _build_fallback_recommendations: the first three names that are in the catalog
build_fallback_recommendations(preset_names) ==
    SelectSeq(Take(preset_names, 3), LAMBDA n : n \in Range(ALL_PRESET_NAMES))

\* _analyze_and_recommend + _parse_recommendations.
\* llm = [kind : "raise" | "garbage" | "array" | "object", names]
analyze_and_recommend(context, llm) ==
    CASE llm.kind = "raise" -> [exc |-> "LLMError", recs |-> <<>>]
      [] llm.kind = "garbage" -> [exc |-> "none", recs |-> build_fallback_recommendations(DefaultTriple)]
      [] llm.kind = "object" -> [exc |-> "TypeError", recs |-> <<>>]
      [] OTHER ->
            LET enriched == SelectSeq(Take(llm.names, 3), LAMBDA n : n \in Range(ALL_PRESET_NAMES))
            IN  [exc |-> "none",
                 recs |-> IF enriched = <<>> THEN build_fallback_recommendations(DefaultTriple)
                          ELSE enriched]


\* run lets every exception of load_preset but FileNotFoundError escape
style_recommender_raises(context) ==
    IF context.style_name # "" /\ load_preset(context.style_name) = "OSError"
    THEN "OSError" ELSE "none"

\* style_recommender_run that also extracts the template under a user-selected style
style_recommender_run_keeps_template(context, answer) ==
    IF context.style_name # "" /\ load_preset(context.style_name) = "ok"
    THEN AgentResult(TRUE, [recommended_style |-> context.style_name,
                            recommendations |-> <<context.style_name>>,
                            custom_preset |-> IF context.pptx_template_path # None /\ answer.template_ok
                                              THEN "custom_template" ELSE None], <<>>, 0)
    ELSE IF context.pptx_template_path # None /\ answer.template_ok
    THEN AgentResult(TRUE, [recommended_style |-> "custom",
                            recommendations |-> <<"custom">>,
                            custom_preset |-> "custom_template"], <<>>, 0)
    ELSE LET mood_presets == IF context.mood # "" THEN presets_for_mood(context.mood) ELSE <<>>
             a == analyze_and_recommend(context, answer.llm)
             recommendations ==
                IF a.exc = "none" THEN a.recs
                ELSE IF mood_presets # <<>> THEN build_fallback_recommendations(mood_presets)
                ELSE build_fallback_recommendations(DefaultTriple)
             top_style == IF recommendations # <<>> THEN recommendations[1] ELSE "bold_signal"
         IN  AgentResult(TRUE, [recommended_style |-> top_style,
                                recommendations |-> recommendations,
                                custom_preset |-> None], <<>>, 1)

\* answer = [template_ok : BOOLEAN, llm]
style_recommender_run(context, answer) ==
    IF context.style_name # "" /\ load_preset(context.style_name) = "ok"
    THEN AgentResult(TRUE, [recommended_style |-> context.style_name,
                            recommendations |-> <<context.style_name>>,
                            custom_preset |-> None], <<>>, 0)
    ELSE IF context.pptx_template_path # None /\ answer.template_ok
    THEN AgentResult(TRUE, [recommended_style |-> "custom",
                            recommendations |-> <<"custom">>,
                            custom_preset |-> "custom_template"], <<>>, 0)
    ELSE LET mood_presets == IF context.mood # "" THEN presets_for_mood(context.mood) ELSE <<>>
             a == analyze_and_recommend(context, answer.llm)
             recommendations ==
                IF a.exc = "none" THEN a.recs
                ELSE IF mood_presets # <<>> THEN build_fallback_recommendations(mood_presets)
                ELSE build_fallback_recommendations(DefaultTriple)
             top_style == IF recommendations # <<>> THEN recommendations[1] ELSE "bold_signal"
         IN  AgentResult(TRUE, [recommended_style |-> top_style,
                                recommendations |-> recommendations,
                                custom_preset |-> None], <<>>, 1)

\* ------------------------------------------------------------ orchestrator
\* Orchestrator._export
orchestrator_export(context, bad) ==
    ExportLog(context.output_dir, context.output_formats, bad)

\* session.output_paths.get("html", ".").rsplit("/", 1)[0] if session.output_paths else "."
session_output_dir(session) ==
    IF session.output_paths = EmptyMap THEN Dot
    ELSE rsplit_head(IF "html" \in DOMAIN session.output_paths
                     THEN session.output_paths["html"] ELSE Dot)

Outcome(exc, error, fs, session, export) ==
    [exc |-> exc, error |-> error, store |-> fs.store, touched |-> fs.touched,
     session |-> session, export |-> export]


\* edit_presentation that writes the loaded session back before it looks at
\* the Editor's result
edit_presentation_saves_first(fs, session_id, instruction, resp, bad, uuid, t) ==
    LET l == load(fs, session_id, uuid, t)
        fs1 == [store |-> fs.store, touched |-> l.touched]
    IN  IF l.exc # "none" THEN Outcome(l.exc, <<>>, fs1, None, NoExport)
        ELSE
        LET session == l.session
            context == ConversationContext(
                [topic |-> session.topic, purpose |-> session.purpose,
                 slides |-> session.slides,
                 presentation_title |-> session.presentation_title,
                 style_name |-> session.style_name,
                 custom_preset |-> session.custom_preset,
                 output_dir |-> session_output_dir(session),
                 output_formats |-> session.output_formats,
                 research_data |-> session.research_data,
                 edit_instruction |-> instruction])
            edit_result == editor_run(context, resp)
            fs2 == save(fs1, session, t)
        IN  IF ~edit_result.success
            THEN Outcome("RuntimeError", <<"Edit failed: ">> \o edit_result.error, fs2, None, NoExport)
            ELSE
            LET session1 == add_edit([session EXCEPT !.slides = edit_result.data.slides],
                                     instruction, edit_result.data.change_summary, t)
                x == orchestrator_export([context EXCEPT !.slides = session1.slides], bad)
                session2 == [session1 EXCEPT !.output_paths = x.results]
                sv == save(fs2, session2, t)
            IN  Outcome(sv.exc, <<>>, sv, sv.session, x)

\* Orchestrator.edit_presentation; resp = the Editor's LLM answer, bad = the
\* exporters that raise, uuid and t = what uuid4 and datetime.now() return
edit_presentation(fs, session_id, instruction, resp, bad, uuid, t) ==
    LET l == load(fs, session_id, uuid, t)
        fs1 == [store |-> fs.store, touched |-> l.touched]
    IN  IF l.exc # "none" THEN Outcome(l.exc, <<>>, fs1, None, NoExport)
        ELSE
        LET session == l.session
            context == ConversationContext(
                [topic |-> session.topic, purpose |-> session.purpose,
                 slides |-> session.slides,
                 presentation_title |-> session.presentation_title,
                 style_name |-> session.style_name,
                 custom_preset |-> session.custom_preset,
                 output_dir |-> session_output_dir(session),
                 output_formats |-> session.output_formats,
                 research_data |-> session.research_data,
                 edit_instruction |-> instruction])
            edit_result == editor_run(context, resp)
        IN  IF ~edit_result.success
            THEN Outcome("RuntimeError", <<"Edit failed: ">> \o edit_result.error, fs1, None, NoExport)
            ELSE
            LET session1 == add_edit([session EXCEPT !.slides = edit_result.data.slides],
                                     instruction, edit_result.data.change_summary, t)
                x == orchestrator_export([context EXCEPT !.slides = session1.slides], bad)
                session2 == [session1 EXCEPT !.output_paths = x.results]
                sv == save(fs1, session2, t)
            IN  Outcome(sv.exc, <<>>, sv, sv.session, x)


\* change_style that sets the style name and keeps the custom preset
change_style_keeps_preset(fs, session_id, style_name, pptx_template, answer, bad, uuid, t) ==
    LET l == load(fs, session_id, uuid, t)
        fs1 == [store |-> fs.store, touched |-> l.touched]
    IN  IF l.exc # "none" THEN Outcome(l.exc, <<>>, fs1, None, NoExport)
        ELSE
        LET session == l.session
            style_result == style_recommender_run(
                ConversationContext([pptx_template_path |-> pptx_template, style_name |-> ""]),
                answer)
            session1 ==
                IF pptx_template # None
                THEN IF style_result.success /\ style_result.data.custom_preset # None
                     THEN [session EXCEPT !.custom_preset = style_result.data.custom_preset,
                                          !.style_name = "custom"]
                     ELSE session
                ELSE IF style_name # None
                THEN [session EXCEPT !.style_name = style_name]
                ELSE session
            context == ConversationContext(
                [topic |-> session1.topic, slides |-> session1.slides,
                 presentation_title |-> session1.presentation_title,
                 style_name |-> session1.style_name,
                 custom_preset |-> session1.custom_preset,
                 output_dir |-> session_output_dir(session1),
                 output_formats |-> session1.output_formats])
            x == orchestrator_export(context, bad)
            session2 == add_edit([session1 EXCEPT !.output_paths = x.results],
                                 <<"Changed style to ",
                                   IF style_name # None THEN style_name ELSE "custom PPTX template">>,
                                 <<"Style updated to ", session1.style_name>>, t)
            sv == save(fs1, session2, t)
        IN  Outcome(sv.exc, <<>>, sv, sv.session, x)

\* Orchestrator.change_style; answer = what the StyleRecommender's collaborators answer
change_style(fs, session_id, style_name, pptx_template, answer, bad, uuid, t) ==
    LET l == load(fs, session_id, uuid, t)
        fs1 == [store |-> fs.store, touched |-> l.touched]
    IN  IF l.exc # "none" THEN Outcome(l.exc, <<>>, fs1, None, NoExport)
        ELSE
        LET session == l.session
            style_result == style_recommender_run(
                ConversationContext([pptx_template_path |-> pptx_template, style_name |-> ""]),
                answer)
            session1 ==
                IF pptx_template # None
                THEN IF style_result.success /\ style_result.data.custom_preset # None
                     THEN [session EXCEPT !.custom_preset = style_result.data.custom_preset,
                                          !.style_name = "custom"]
                     ELSE session
                ELSE IF style_name # None
                THEN [session EXCEPT !.style_name = style_name, !.custom_preset = None]
                ELSE session
            context == ConversationContext(
                [topic |-> session1.topic, slides |-> session1.slides,
                 presentation_title |-> session1.presentation_title,
                 style_name |-> session1.style_name,
                 custom_preset |-> session1.custom_preset,
                 output_dir |-> session_output_dir(session1),
                 output_formats |-> session1.output_formats])
            x == orchestrator_export(context, bad)
            session2 == add_edit([session1 EXCEPT !.output_paths = x.results],
                                 <<"Changed style to ",
                                   IF style_name # None THEN style_name ELSE "custom PPTX template">>,
                                 <<"Style updated to ", session1.style_name>>, t)
            sv == save(fs1, session2, t)
        IN  Outcome(sv.exc, <<>>, sv, sv.session, x)

\* list(set(a + b)): the elements once each, in an order the build chooses
SetOrders(S) == {q \in SeqsUpTo(S, Cardinality(S)) : Len(q) = Cardinality(S) /\ Range(q) = S}


\* export_formats that records the requested formats in place of the union
export_formats_replaces(fs, session_id, formats, output_dir, bad, order, uuid, t) ==
    LET l == load(fs, session_id, uuid, t)
        fs1 == [store |-> fs.store, touched |-> l.touched]
    IN  IF l.exc # "none" THEN Outcome(l.exc, <<>>, fs1, None, NoExport)
        ELSE
        LET session == l.session
            context == ConversationContext(
                [topic |-> session.topic, slides |-> session.slides,
                 presentation_title |-> session.presentation_title,
                 style_name |-> session.style_name,
                 custom_preset |-> session.custom_preset,
                 output_dir |-> output_dir, output_formats |-> formats])
            x == orchestrator_export(context, bad)
            session1 == [session EXCEPT
                            !.output_paths = Update(@, x.results),
                            !.output_formats = formats]
            sv == save(fs1, session1, t)
        IN  Outcome(sv.exc, <<>>, sv, sv.session, x)

\* Orchestrator.export_formats; order = the order list(set(...)) yields
export_formats(fs, session_id, formats, output_dir, bad, order, uuid, t) ==
    LET l == load(fs, session_id, uuid, t)
        fs1 == [store |-> fs.store, touched |-> l.touched]
    IN  IF l.exc # "none" THEN Outcome(l.exc, <<>>, fs1, None, NoExport)
        ELSE
        LET session == l.session
            context == ConversationContext(
                [topic |-> session.topic, slides |-> session.slides,
                 presentation_title |-> session.presentation_title,
                 style_name |-> session.style_name,
                 custom_preset |-> session.custom_preset,
                 output_dir |-> output_dir, output_formats |-> formats])
            x == orchestrator_export(context, bad)
            session1 == [session EXCEPT
                            !.output_paths = Update(@, x.results),
                            !.output_formats = order]
            sv == save(fs1, session1, t)
        IN  Outcome(sv.exc, <<>>, sv, sv.session, x)

\* ------------------------------------------------------------ common state
Idle == [op |-> "none", exc |-> "none", error |-> <<>>, id |-> <<>>, arg |-> None]

Done(op, exc, error, id, arg) == [op |-> op, exc |-> exc, error |-> error, id |-> id, arg |-> arg]

NoRun == [x \in {} |-> None]

InitCommon ==
    /\ store = EmptyMap
    /\ touched = {}
    /\ now = 1
    /\ pc = "idle"
    /\ ctx = NoRun
    /\ sess = NoRun
    /\ env = NoRun
    /\ trace = <<>>
    /\ agent_results = EmptyMap
    /\ last = Idle
    /\ export_log = NoExport
    /\ workers = EmptyMap
    /\ presentations = EmptyMap
    /\ progress = EmptyMap
    /\ queues = EmptyMap
    /\ task = [pc |-> "none", queue |-> None]
    /\ stream = [pc |-> "none", queue |-> None, received |-> <<>>]

\* what the session store and the agents never touch
Elsewhere == UNCHANGED <<workers, presentations, progress, queues, task, stream>>

\* ===================================================== export_all on its own
FormatTokens == {"html", "pptx", "pdf", "docx", "PDF "}

ExportAllCall(output_dir, formats, bad) ==
    /\ export_log = NoExport
    /\ export_log' = ExportLog(output_dir, formats, bad)
    /\ UNCHANGED <<store, touched, now, pc, ctx, sess, env, trace, agent_results, last>>
    /\ Elsewhere

NextExport ==
    \E output_dir \in {Dot, OutDir}, formats \in SeqsUpTo(FormatTokens, MaxFormats),
       bad \in SUBSET EXPORTERS :
        ExportAllCall(output_dir, formats, bad)

SpecExport == InitCommon /\ [][NextExport]_vars

\* ================================================= Researcher.run on its own
MaxSources == 2

UrlNames == <<"u1", "u2", "u3">>

FileNames == <<"f1", "f2", "f3">>

Outcomes == {"content", "empty", "raise"}

ResearcherRun(urls, files, answer) ==
    /\ last.op = "none"
    /\ LET context == ConversationContext([topic |-> "Quantum", urls |-> urls, files |-> files])
       IN  /\ ctx' = context
           /\ agent_results' = Put(agent_results, "research", researcher_run(context, answer))
           /\ last' = Done("researcher_run", "none", <<>>, <<>>,
                           [sources |-> research_sources(context, answer)])
    /\ env' = Put(env, "research", answer)
    /\ UNCHANGED <<store, touched, now, pc, sess, trace, export_log>>
    /\ Elsewhere

NextResearch ==
    \E n \in 0..MaxSources, m \in 0..MaxSources :
        \E url \in [1..n -> Outcomes], file \in [1..m -> Outcomes], search \in Outcomes,
           synth \in BOOLEAN :
            ResearcherRun(Take(UrlNames, n), Take(FileNames, m),
                          [url |-> url, file |-> file, search |-> search, synth |-> synth])

SpecResearch == InitCommon /\ [][NextResearch]_vars

\* ============================================ the HTTP layer: presentations.py
\* str(uuid.uuid4()) of the one request the model follows, and its Queue object
SessionId == "s1"

QueueObject == "Q1"

ProgressEvent(stage, percent) == [stage |-> stage, progress |-> percent]

\* update_progress inside process_presentation; P = _presentations, Q = the
\* Queue objects, queue = the task's local reference.  put on an unbounded
\* asyncio.Queue never suspends, so the helper runs without yielding.
update_progress(P, Q, queue, stage, percent) ==
    IF SessionId \notin DOMAIN P
    THEN [exc |-> "KeyError", presentations |-> P, queues |-> Q]
    ELSE [exc |-> "none",
          presentations |-> [P EXCEPT ![SessionId].stage = stage,
                                      ![SessionId].progress = percent],
          queues |-> IF queue # None
                     THEN [Q EXCEPT ![queue] = Append(@, ProgressEvent(stage, percent))]
                     ELSE Q]

\* the except branch of process_presentation
on_exception(P, Q, queue) ==
    IF SessionId \notin DOMAIN P
    THEN [exc |-> "KeyError", presentations |-> P, queues |-> Q]
    ELSE update_progress([P EXCEPT ![SessionId].status = "error"], Q, queue, "error", 0)

\* the task runs r = [exc, presentations, queues] of a piece of the try block
\* up to the next await that suspends (next_pc), or through the except branch
\* to its end
TaskRuns(r, queue, next_pc) ==
    LET h == IF r.exc = "none" THEN r ELSE on_exception(r.presentations, r.queues, queue)
    IN  /\ presentations' = h.presentations
        /\ queues' = h.queues
        /\ task' = [pc |-> IF r.exc = "none" THEN next_pc
                           ELSE IF h.exc = "none" THEN "ended" ELSE "raised",
                    queue |-> queue]
        /\ UNCHANGED <<store, touched, now, pc, ctx, sess, env, trace, agent_results, last,
                       export_log, workers, progress, stream>>

Raised(r) == [exc |-> "Exception", presentations |-> r.presentations, queues |-> r.queues]

\* POST "": the record, its queue, and the background task
PostPresentation ==
    /\ task.pc = "none"
    /\ presentations' = Put(presentations, SessionId,
                            [status |-> "processing", stage |-> "initializing", progress |-> 0])
    /\ progress' = Put(progress, SessionId, QueueObject)
    /\ queues' = Put(queues, QueueObject, <<>>)
    /\ task' = [pc |-> "pending", queue |-> None]
    /\ UNCHANGED <<store, touched, now, pc, ctx, sess, env, trace, agent_results, last,
                   export_log, workers, stream>>

\* process_presentation from its start to asyncio.sleep(1)
ProcessStart ==
    /\ task.pc = "pending"
    /\ LET queue == IF SessionId \in DOMAIN progress THEN progress[SessionId] ELSE None
       IN  TaskRuns(update_progress(presentations, queues, queue, "researching", 10),
                    queue, "sleep_1")

\* ... to asyncio.to_thread(orchestrator.create_presentation, ...)
ProcessAnalyze ==
    /\ task.pc = "sleep_1"
    /\ TaskRuns(update_progress(presentations, queues, task.queue, "researching", 25),
                task.queue, "to_thread")

\* the pipeline returns (ok) or raises; ... to asyncio.sleep(0.5)
ProcessCurating(ok) ==
    /\ task.pc = "to_thread"
    /\ TaskRuns(IF ok THEN update_progress(presentations, queues, task.queue, "curating", 50)
                ELSE [exc |-> "RuntimeError", presentations |-> presentations, queues |-> queues],
                task.queue, "sleep_2")

\* ... to the second asyncio.sleep(0.5)
ProcessStyling ==
    /\ task.pc = "sleep_2"
    /\ TaskRuns(update_progress(presentations, queues, task.queue, "styling", 70),
                task.queue, "sleep_3")

\* ... to the end: every exporter is called with the session as its only
\* argument and raises TypeError, and with no known format in the request
\* result.get raises AttributeError, so the try block never completes
ProcessExporting ==
    /\ task.pc = "sleep_3"
    /\ LET u == update_progress(presentations, queues, task.queue, "exporting", 85)
       IN  TaskRuns(IF u.exc = "none" THEN Raised(u) ELSE u, task.queue, "ended")

\* DELETE "/{session_id}" by an admin
DeletePresentation ==
    /\ SessionId \in DOMAIN presentations
    /\ presentations' = [k \in DOMAIN presentations \ {SessionId} |-> presentations[k]]
    /\ progress' = [k \in DOMAIN progress \ {SessionId} |-> progress[k]]
    /\ UNCHANGED <<store, touched, now, pc, ctx, sess, env, trace, agent_results, last,
                   export_log, workers, queues, task, stream>>

\* GET "/{session_id}/stream" up to the EventSourceResponse it returns
StreamProgress ==
    /\ stream.pc = "none"
    /\ task.pc # "none"
    /\ stream' = [stream EXCEPT !.pc = IF SessionId \in DOMAIN presentations
                                       THEN "response" ELSE "404"]
    /\ UNCHANGED <<store, touched, now, pc, ctx, sess, env, trace, agent_results, last,
                   export_log, workers, presentations, progress, queues, task>>

\* event_generator up to its first wait
EventGeneratorStart ==
    /\ stream.pc = "response"
    /\ stream' = IF SessionId \in DOMAIN progress
                 THEN [stream EXCEPT !.pc = "waiting", !.queue = progress[SessionId]]
                 ELSE [stream EXCEPT !.pc = "returned"]
    /\ UNCHANGED <<store, touched, now, pc, ctx, sess, env, trace, agent_results, last,
                   export_log, workers, presentations, progress, queues, task>>

\* one round of the loop that gets an event; a timeout yields a ping and
\* changes nothing
EventGeneratorGet ==
    /\ stream.pc = "waiting"
    /\ queues[stream.queue] # <<>>
    /\ LET event == Head(queues[stream.queue])
       IN  stream' = [stream EXCEPT
                        !.received = Append(@, event),
                        !.pc = IF event.progress >= 100 \/ event.stage \in {"completed", "error"}
                               THEN "stopped" ELSE "waiting"]
    /\ queues' = [queues EXCEPT ![stream.queue] = Tail(@)]
    /\ UNCHANGED <<store, touched, now, pc, ctx, sess, env, trace, agent_results, last,
                   export_log, workers, presentations, progress, task>>

NextStream ==
    \/ PostPresentation
    \/ ProcessStart
    \/ ProcessAnalyze
    \/ \E ok \in BOOLEAN : ProcessCurating(ok)
    \/ ProcessStyling
    \/ ProcessExporting
    \/ DeletePresentation
    \/ StreamProgress
    \/ EventGeneratorStart
    \/ EventGeneratorGet

SpecStream == InitCommon /\ [][NextStream]_vars

\* ================================================ validate_slides on its own
Slide(type, title, bullets, cards) ==
    [type |-> type, title |-> title, bullets |-> bullets, cards |-> cards]

\* seven cards, the even ones without a title, none with a description
CardNames == <<"c1", "c2", "c3", "c4", "c5", "c6", "c7">>

CardsOver ==
    [i \in 1..(MaxCards + 1) |->
        [title |-> IF i % 2 = 0 THEN Absent ELSE CardNames[i], description |-> Absent]]

SlideSamples ==
    {Slide("title", "Intro", <<>>, <<>>),
     Slide("content", "Body", [i \in 1..(MaxBullets + 1) |-> i], <<>>),
     Slide("bogus", "", <<1, 2>>, <<>>),
     Slide(Absent, Absent, <<>>, CardsOver),
     Slide("closing", "End", <<>>, <<[title |-> "c1", description |-> "text"]>>),
     Slide("quote", "Said", [i \in 1..MaxBullets |-> i], <<>>)}

\* validate_slides(slides) on a list fresh from json.loads
ValidateSlides(slides) ==
    /\ last.op = "none"
    /\ last' = Done("validate_slides", "none", <<>>, <<>>,
                    [slides |-> slides, ret |-> validate_slides(slides)])
    /\ UNCHANGED <<store, touched, now, pc, ctx, sess, env, trace, agent_results, export_log>>
    /\ Elsewhere

\* validate_slides applied to the list it returned
ValidateAgain ==
    /\ last.op = "validate_slides"
    /\ last' = Done("validate_again", "none", <<>>, <<>>,
                    [slides |-> last.arg.ret, ret |-> validate_slides(last.arg.ret)])
    /\ UNCHANGED <<store, touched, now, pc, ctx, sess, env, trace, agent_results, export_log>>
    /\ Elsewhere

NextValidate ==
    \/ \E slides \in SeqsUpTo(SlideSamples, MaxSlides) : ValidateSlides(slides)
    \/ ValidateAgain

SpecValidate == InitCommon /\ [][NextValidate]_vars

\* ================================================ the session store on its own
Rep(c, n) == [i \in 1..n |-> c]

IdInputs ==
    {<<"a">>, <<"A">>, <<".", ".", "/", "x">>, <<"a", "\n">>, <<"\n">>,
     Rep("f", MaxIdLen), Rep("f", MaxIdLen + 1)}

Topics == {"Quantum"}

\* mgr.save(PresentationSession(id=..., topic=...))
StoreSave(session_id, topic) ==
    /\ now < MaxClock
    /\ LET s == PresentationSession([id |-> session_id, topic |-> topic], Rep("a", UuidLen), now)
           r == save(FS, s, now)
       IN  /\ store' = r.store
           /\ touched' = r.touched
           /\ last' = Done("save", r.exc, <<>>, s.id, topic)
    /\ now' = now + 1
    /\ UNCHANGED <<pc, ctx, sess, env, trace, agent_results, export_log>>
    /\ Elsewhere

StoreLoad(session_id) ==
    /\ LET r == load(FS, session_id, Rep("a", UuidLen), now)
       IN  /\ touched' = r.touched
           /\ last' = Done("load", r.exc, <<>>, session_id,
                           IF r.exc = "none" THEN r.session ELSE None)
    /\ UNCHANGED <<store, now, pc, ctx, sess, env, trace, agent_results, export_log>>
    /\ Elsewhere

StoreDelete(session_id) ==
    /\ LET r == delete(FS, session_id)
       IN  /\ store' = r.store
           /\ touched' = r.touched
           /\ last' = Done("delete", r.exc, <<>>, session_id, r.ret)
    /\ UNCHANGED <<now, pc, ctx, sess, env, trace, agent_results, export_log>>
    /\ Elsewhere

StoreLatest ==
    /\ LET r == latest(FS, Rep("a", UuidLen), now)
       IN  /\ touched' = r.touched
           /\ last' = Done("latest", r.exc, <<>>, r.id, r.session)
    /\ UNCHANGED <<store, now, pc, ctx, sess, env, trace, agent_results, export_log>>
    /\ Elsewhere

NextStore ==
    \/ StoreLatest
    \/ \E session_id \in IdInputs, topic \in Topics : StoreSave(session_id, topic)
    \/ \E session_id \in IdInputs : StoreLoad(session_id)
    \/ \E session_id \in IdInputs : StoreDelete(session_id)

SpecStore == InitCommon /\ [][NextStore]_vars

\* ======================================================= the pipeline (Spec)
\* decks the model's LLM answers with
DeckGood ==
    <<Slide("title", "Intro", <<>>, <<>>), Slide("content", "Body", <<1, 2>>, <<>>),
      Slide("closing", "End", <<>>, <<>>)>>

\* the model dropped the title and closing slides and invented a type
DeckBad ==
    <<Slide("content", "Body", <<1, 2, 3, 4, 5, 6, 7>>, <<>>), Slide("bogus", "", <<>>, <<>>),
      Slide("quote", Absent, <<>>, <<[title |-> "Card", description |-> Absent]>>)>>

DeckTwo == <<Slide("closing", "End", <<>>, <<>>), Slide("title", "Intro", <<>>, <<>>)>>

GenIds == <<Rep("a", UuidLen), Rep("b", UuidLen)>>

UnknownId == Rep("0", UuidLen)

BadId == <<".", ".", "/", "x">>

StoredIds == {SubSeq(f, 1, Len(f) - 1) : f \in DOMAIN store}

CreateFormats == {<<>>, <<"html", "pptx">>}

ResearchAnswers ==
    {[url |-> <<>>, file |-> <<>>, search |-> "content", synth |-> b] : b \in BOOLEAN}

CuratorAnswers ==
    {[kind |-> "raise", slides |-> <<>>], [kind |-> "garbage", slides |-> <<>>],
     [kind |-> "scalar", slides |-> <<>>], [kind |-> "array", slides |-> <<>>],
     [kind |-> "array", slides |-> DeckBad], [kind |-> "object_slides", slides |-> DeckGood],
     [kind |-> "object_slides", slides |-> DeckTwo],
     [kind |-> "object", slides |-> <<Slide("content", "Only", <<>>, <<>>)>>]}

StyleAnswers ==
    {[template_ok |-> ok, llm |-> l] :
        ok \in BOOLEAN,
        l \in {[kind |-> "raise", names |-> <<>>],
               [kind |-> "array", names |-> <<"made_up", "neon_cyber">>]}}

EditorAnswers ==
    {[kind |-> "raise", slides |-> <<>>, summary |-> Absent],
     [kind |-> "object", slides |-> <<>>, summary |-> Absent],
     [kind |-> "object_text", slides |-> <<>>, summary |-> Absent],
     [kind |-> "object_slides", slides |-> DeckBad, summary |-> "Merged"],
     [kind |-> "array", slides |-> DeckTwo, summary |-> Absent]}

Instructions == {"", "merge slides 2 and 3"}

BadSets == {{}, {"html"}}


\* CreateStart with the session constructed but not saved
CreateStart_unsaved(topic, style_name, pptx_template, mood, output_formats, uuid) ==
    /\ pc = "idle"
    /\ now < MaxClock
    /\ uuid \o <<".json">> \notin DOMAIN store
    /\ LET formats == IF output_formats = <<>> THEN <<"html">> ELSE output_formats
       IN  /\ ctx' = ConversationContext(
                        [topic |-> topic, purpose |-> "presentation", urls |-> <<>>,
                         files |-> <<>>, slide_count |-> 3, mood |-> mood, audience |-> "",
                         style_name |-> style_name, pptx_template_path |-> pptx_template,
                         output_dir |-> Dot, output_formats |-> formats,
                         extra_instructions |-> ""])
           /\ sess' = PresentationSession(
                        [topic |-> topic, purpose |-> "presentation", urls |-> <<>>,
                         files |-> <<>>, mood |-> mood, audience |-> "",
                         slide_count |-> 3, output_formats |-> formats], uuid, now)
    /\ touched' = touched \cup {uuid \o <<".json">>}
    /\ now' = now + 1
    /\ pc' = "research"
    /\ trace' = <<"save">>
    /\ env' = EmptyMap
    /\ agent_results' = EmptyMap
    /\ last' = Idle
    /\ export_log' = NoExport
    /\ UNCHANGED store
    /\ Elsewhere

\* create_presentation up to and including session_manager.create
CreateStart(topic, style_name, pptx_template, mood, output_formats, uuid) ==
    /\ pc = "idle"
    /\ now < MaxClock
    /\ uuid \o <<".json">> \notin DOMAIN store
    /\ LET formats == IF output_formats = <<>> THEN <<"html">> ELSE output_formats
           c == create(FS, [topic |-> topic, purpose |-> "presentation", urls |-> <<>>,
                            files |-> <<>>, mood |-> mood, audience |-> "",
                            slide_count |-> 3, output_formats |-> formats], uuid, now)
       IN  /\ ctx' = ConversationContext(
                        [topic |-> topic, purpose |-> "presentation", urls |-> <<>>,
                         files |-> <<>>, slide_count |-> 3, mood |-> mood, audience |-> "",
                         style_name |-> style_name, pptx_template_path |-> pptx_template,
                         output_dir |-> Dot, output_formats |-> formats,
                         extra_instructions |-> ""])
           /\ sess' = c.session
           /\ store' = c.store
           /\ touched' = c.touched
    /\ now' = now + 1
    /\ pc' = "research"
    /\ trace' = <<"save">>
    /\ env' = EmptyMap
    /\ agent_results' = EmptyMap
    /\ last' = Idle
    /\ export_log' = NoExport
    /\ Elsewhere


\* Research that runs the Researcher again when it failed
Research_retry(answer) ==
    /\ pc = "research"
    /\ LET research_result == researcher_run(ctx, answer)
       IN  /\ agent_results' = Put(agent_results, "research", research_result)
           /\ IF ~research_result.success
              THEN /\ ctx' = [ctx EXCEPT !.research_data = EmptyMap]
                   /\ sess' = sess
                   /\ pc' = "research"
              ELSE /\ ctx' = [ctx EXCEPT !.research_data = research_result.data]
                   /\ sess' = [sess EXCEPT !.research_data = research_result.data]
                   /\ pc' = "curate"
    /\ env' = Put(env, "research", answer)
    /\ trace' = Append(trace, "research")
    /\ UNCHANGED <<store, touched, now, last, export_log>>
    /\ Elsewhere

\* Phase 1
Research(answer) ==
    /\ pc = "research"
    /\ LET research_result == researcher_run(ctx, answer)
       IN  /\ agent_results' = Put(agent_results, "research", research_result)
           /\ IF ~research_result.success
              THEN /\ ctx' = [ctx EXCEPT !.research_data = EmptyMap]
                   /\ sess' = sess
              ELSE /\ ctx' = [ctx EXCEPT !.research_data = research_result.data]
                   /\ sess' = [sess EXCEPT !.research_data = research_result.data]
    /\ env' = Put(env, "research", answer)
    /\ trace' = Append(trace, "research")
    /\ pc' = "curate"
    /\ UNCHANGED <<store, touched, now, last, export_log>>
    /\ Elsewhere


\* Curate that goes on to the style phase when the Curator failed
Curate_continues(answer) ==
    /\ pc = "curate"
    /\ LET curator_result == curator_run(ctx, answer)
       IN  /\ agent_results' = Put(agent_results, "curate", curator_result)
           /\ IF ~curator_result.success
              THEN UNCHANGED <<ctx, sess>>
              ELSE /\ ctx' = [ctx EXCEPT !.slides = curator_result.data.slides,
                                         !.presentation_title = curator_result.data.presentation_title]
                   /\ sess' = [sess EXCEPT !.slides = curator_result.data.slides,
                                           !.presentation_title = curator_result.data.presentation_title]
    /\ pc' = "style"
    /\ env' = Put(env, "curate", answer)
    /\ trace' = Append(trace, "curate")
    /\ UNCHANGED <<store, touched, now, last, export_log>>
    /\ Elsewhere

\* Phase 2
Curate(answer) ==
    /\ pc = "curate"
    /\ LET curator_result == curator_run(ctx, answer)
       IN  /\ agent_results' = Put(agent_results, "curate", curator_result)
           /\ IF ~curator_result.success
              THEN /\ pc' = "idle"
                   /\ last' = Done("create", "RuntimeError",
                                   <<"Curation failed: ">> \o curator_result.error, sess.id, None)
                   /\ ctx' = ctx
                   /\ sess' = sess
              ELSE /\ pc' = "style"
                   /\ last' = last
                   /\ ctx' = [ctx EXCEPT !.slides = curator_result.data.slides,
                                         !.presentation_title = curator_result.data.presentation_title]
                   /\ sess' = [sess EXCEPT !.slides = curator_result.data.slides,
                                           !.presentation_title = curator_result.data.presentation_title]
    /\ env' = Put(env, "curate", answer)
    /\ trace' = Append(trace, "curate")
    /\ UNCHANGED <<store, touched, now, export_log>>
    /\ Elsewhere

\* Phase 3; an exception of the StyleRecommender ends the call
Style(answer) ==
    /\ pc = "style"
    /\ IF style_recommender_raises(ctx) # "none"
       THEN /\ pc' = "idle"
            /\ last' = Done("create", style_recommender_raises(ctx), <<>>, sess.id, None)
            /\ UNCHANGED <<agent_results, ctx, sess>>
       ELSE
       LET style_result == style_recommender_run(ctx, answer)
           style_name == IF style_result.success THEN style_result.data.recommended_style
                         ELSE IF ctx.style_name # "" THEN ctx.style_name ELSE "bold_signal"
           preset == style_result.success /\ style_result.data.custom_preset # None
       IN  /\ agent_results' = Put(agent_results, "style", style_result)
           /\ ctx' = [ctx EXCEPT
                        !.style_name = style_name,
                        !.style_recommendations =
                            IF style_result.success THEN style_result.data.recommendations ELSE @,
                        !.custom_preset =
                            IF preset THEN style_result.data.custom_preset ELSE @]
           /\ sess' = [sess EXCEPT
                        !.style_name = style_name,
                        !.custom_preset =
                            IF preset THEN style_result.data.custom_preset ELSE @]
           /\ pc' = "export"
           /\ last' = last
    /\ env' = Put(env, "style", answer)
    /\ trace' = Append(trace, "style")
    /\ UNCHANGED <<store, touched, now, export_log>>
    /\ Elsewhere


\* Export that returns without the final save
Export_unsaved(bad) ==
    /\ pc = "export"
    /\ LET x == orchestrator_export(ctx, bad)
       IN  /\ export_log' = x
           /\ ctx' = [ctx EXCEPT !.output_paths = x.results]
           /\ sess' = [sess EXCEPT !.output_paths = x.results]
           /\ last' = Done("create", "none", <<>>, sess.id, None)
    /\ env' = Put(env, "export", bad)
    /\ trace' = trace \o <<"export", "save">>
    /\ now' = now + 1
    /\ pc' = "idle"
    /\ UNCHANGED <<store, touched, agent_results>>
    /\ Elsewhere

\* Phase 4, the final save and the return
Export(bad) ==
    /\ pc = "export"
    /\ LET x == orchestrator_export(ctx, bad)
           sv == save(FS, [sess EXCEPT !.output_paths = x.results], now)
       IN  /\ export_log' = x
           /\ store' = sv.store
           /\ touched' = sv.touched
           /\ ctx' = [ctx EXCEPT !.output_paths = x.results]
           /\ sess' = sv.session
           /\ last' = Done("create", sv.exc, <<>>, sess.id, None)
    /\ env' = Put(env, "export", bad)
    /\ trace' = trace \o <<"export", "save">>
    /\ now' = now + 1
    /\ pc' = "idle"
    /\ UNCHANGED agent_results
    /\ Elsewhere

\* the bookkeeping of a finished create_presentation call is dropped when the
\* next operation starts
Forget ==
    /\ ctx' = NoRun
    /\ sess' = NoRun
    /\ env' = EmptyMap
    /\ trace' = <<>>
    /\ agent_results' = EmptyMap
    /\ pc' = pc

Apply(op, session_id, arg, o) ==
    /\ store' = o.store
    /\ touched' = o.touched
    /\ export_log' = o.export
    /\ last' = Done(op, o.exc, o.error, session_id, IF o.exc = "none" THEN arg ELSE None)
    /\ now' = IF o.exc = "none" THEN now + 1 ELSE now
    /\ Forget
    /\ Elsewhere

EditPresentation(session_id, instruction, resp, bad) ==
    /\ pc = "idle"
    /\ now < MaxClock
    /\ Apply("edit", session_id, [instruction |-> instruction, resp |-> resp],
             edit_presentation(FS, session_id, instruction, resp, bad, UnknownId, now))

ChangeStyle(session_id, style_name, pptx_template, answer, bad) ==
    /\ pc = "idle"
    /\ now < MaxClock
    /\ Apply("change_style", session_id,
             [style_name |-> style_name, pptx_template |-> pptx_template,
              extracted |-> (pptx_template # None /\ answer.template_ok)],
             change_style(FS, session_id, style_name, pptx_template, answer, bad, UnknownId, now))

ExportFormats(session_id, formats, output_dir, bad) ==
    /\ pc = "idle"
    /\ now < MaxClock
    /\ \E order \in SetOrders(Range(formats) \cup
                    (IF session_id \in StoredIds
                     THEN Range(store[session_id \o <<".json">>].output_formats) ELSE {})) :
        Apply("export_formats", session_id, [formats |-> formats, output_dir |-> output_dir],
              export_formats(FS, session_id, formats, output_dir, bad, order, UnknownId, now))

\* Orchestrator.get_session
GetSession(session_id) ==
    /\ pc = "idle"
    /\ LET l == load(FS, session_id, UnknownId, now)
       IN  /\ touched' = l.touched
           /\ last' = Done("load", l.exc, <<>>, session_id, l.session)
    /\ Forget
    /\ UNCHANGED <<store, now, export_log>>
    /\ Elsewhere

\* a client that loads a session and saves it again
Resave(session_id) ==
    /\ pc = "idle"
    /\ now < MaxClock
    /\ session_id \in StoredIds
    /\ LET l == load(FS, session_id, UnknownId, now)
           sv == save([store |-> store, touched |-> l.touched], l.session, now)
       IN  /\ store' = sv.store
           /\ touched' = sv.touched
           /\ last' = Done("save", sv.exc, <<>>, session_id, sv.session)
    /\ now' = now + 1
    /\ Forget
    /\ UNCHANGED export_log
    /\ Elsewhere

DeleteSession(session_id) ==
    /\ pc = "idle"
    /\ LET d == delete(FS, session_id)
       IN  /\ store' = d.store
           /\ touched' = d.touched
           /\ last' = Done("delete", d.exc, <<>>, session_id, d.ret)
    /\ Forget
    /\ UNCHANGED <<now, export_log>>
    /\ Elsewhere

SessionIds == StoredIds \cup {UnknownId, BadId}

\* uuid4 never repeats an id: the next unused one
FreshIds == {GenIds[i] : i \in {j \in DOMAIN GenIds :
                    /\ GenIds[j] \o <<".json">> \notin touched
                    /\ \A k \in 1..(j - 1) : GenIds[k] \o <<".json">> \in touched}}

\* ---- the session life cycle: one pipeline run, then edits, restyles, re-exports
Next ==
    \/ \E output_formats \in CreateFormats, uuid \in FreshIds \cap {GenIds[1]} :
          CreateStart("Quantum", "", None, "", output_formats, uuid)
    \/ \E answer \in {a \in ResearchAnswers : a.synth} : Research(answer)
    \/ \E answer \in {a \in CuratorAnswers : a.kind \in {"garbage", "array"}} : Curate(answer)
    \/ \E answer \in {a \in StyleAnswers : a.template_ok /\ a.llm.kind = "array"} : Style(answer)
    \/ \E bad \in {{}} : Export(bad)
    \/ \E session_id \in StoredIds, instruction \in Instructions, resp \in EditorAnswers,
          bad \in BadSets : EditPresentation(session_id, instruction, resp, bad)
    \/ \E session_id \in SessionIds \ StoredIds, resp \in {a \in EditorAnswers : a.kind = "array"} :
          EditPresentation(session_id, "merge slides 2 and 3", resp, {})
    \/ \E session_id \in StoredIds, style_name \in {None, "neon_cyber"},
          pptx_template \in {None, "brand.pptx"},
          answer \in {a \in StyleAnswers : a.llm.kind = "raise" /\ a.template_ok} :
          ChangeStyle(session_id, style_name, pptx_template, answer, {})
    \/ \E session_id \in StoredIds : ExportFormats(session_id, <<"pdf">>, OutDir, {})
    \/ \E session_id \in StoredIds : GetSession(session_id)
    \/ \E session_id \in StoredIds : Resave(session_id)
    \/ \E session_id \in StoredIds : DeleteSession(session_id)

Spec == InitCommon /\ [][Next]_vars

\* ---- create_presentation on its own, with every answer of its collaborators
NextCreate ==
    \/ \E style_name \in {"", "bold_signal"}, pptx_template \in {None, "brand.pptx"},
          output_formats \in CreateFormats, uuid \in FreshIds :
          CreateStart("Quantum", style_name, pptx_template, "", output_formats, uuid)
    \/ \E answer \in ResearchAnswers : Research(answer)
    \/ \E answer \in CuratorAnswers : Curate(answer)
    \/ \E answer \in StyleAnswers : Style(answer)
    \/ \E bad \in BadSets : Export(bad)

SpecCreate == InitCommon /\ [][NextCreate]_vars

\* ---- one pipeline run, then re-exports to further formats
ReexportFormats == {<<"pdf">>, <<"pptx", "html">>, <<"docx">>}

NextReexport ==
    \/ \E uuid \in FreshIds \cap {GenIds[1]} : CreateStart("Quantum", "", None, "", <<>>, uuid)
    \/ \E answer \in {a \in ResearchAnswers : a.synth} : Research(answer)
    \/ \E answer \in {a \in CuratorAnswers : a.slides = DeckGood} : Curate(answer)
    \/ \E answer \in {a \in StyleAnswers : a.template_ok /\ a.llm.kind = "array"} : Style(answer)
    \/ \E bad \in BadSets : Export(bad)
    \/ \E session_id \in StoredIds, formats \in ReexportFormats, output_dir \in {Dot, OutDir},
          bad \in {{}, {"pptx"}} : ExportFormats(session_id, formats, output_dir, bad)

SpecReexport == InitCommon /\ [][NextReexport]_vars

\* ---- pipeline runs with and without a template, then edits, restyles and
\* re-exports with every answer that changes what is stored
EditorEmpty == [kind |-> "object_slides", slides |-> <<>>, summary |-> Absent]

NextRestyle ==
    \/ \E style_name \in {"", "bold_signal"}, pptx_template \in {None, "brand.pptx"},
          output_formats \in CreateFormats, uuid \in FreshIds \cap {GenIds[1]} :
          CreateStart("Quantum", style_name, pptx_template, "", output_formats, uuid)
    \/ \E answer \in {a \in ResearchAnswers : a.synth} : Research(answer)
    \/ \E answer \in {a \in CuratorAnswers : a.slides = DeckGood} : Curate(answer)
    \/ \E answer \in {a \in StyleAnswers : a.llm.kind = "array"} : Style(answer)
    \/ \E bad \in BadSets : Export(bad)
    \/ \E session_id \in SessionIds,
          resp \in {EditorEmpty} \cup {a \in EditorAnswers : a.slides = DeckBad} :
          EditPresentation(session_id, "merge slides 2 and 3", resp, {})
    \/ \E session_id \in SessionIds, style_name \in {None, "neon_cyber"},
          pptx_template \in {None, "brand.pptx"},
          answer \in {a \in StyleAnswers : a.llm.kind = "raise"} :
          ChangeStyle(session_id, style_name, pptx_template, answer, {})
    \/ \E session_id \in StoredIds : ExportFormats(session_id, <<"pdf">>, OutDir, {})

SpecRestyle == InitCommon /\ [][NextRestyle]_vars

\* ---- two orchestrator calls on one session side by side.  A call reads the
\* session file once (SessionManager.load) and writes it once
\* (SessionManager.save); everything in between works on its in-memory copy.
Workers == {1, 2}

Calls ==
    {[op |-> "edit", instruction |-> "merge slides 2 and 3",
      resp |-> [kind |-> "array", slides |-> DeckTwo, summary |-> Absent]],
     [op |-> "change_style", style_name |-> "neon_cyber"],
     [op |-> "export_formats", formats |-> <<"pdf">>]}

\* the call of a worker on the session files it saw when it loaded
RunCall(call, session_id, fs, t) ==
    CASE call.op = "edit" ->
            edit_presentation(fs, session_id, call.instruction, call.resp, {}, UnknownId, t)
      [] call.op = "change_style" ->
            change_style(fs, session_id, call.style_name, None,
                         [template_ok |-> FALSE, llm |-> [kind |-> "raise", names |-> <<>>]],
                         {}, UnknownId, t)
      [] OTHER ->
            export_formats(fs, session_id, call.formats, OutDir, {}, <<"html", "pdf">>,
                           UnknownId, t)

WorkerIdle(w) == IF w \in DOMAIN workers THEN workers[w].pc = "idle" ELSE TRUE

\* the call of worker w up to and including self.session_manager.load
WorkerLoad(w, call, session_id) ==
    /\ pc = "idle"
    /\ now < MaxClock
    /\ WorkerIdle(w)
    /\ workers' = Put(workers, w,
                      [pc |-> "loaded", call |-> call, id |-> session_id,
                       loaded |-> store,
                       session |-> IF w \in DOMAIN workers THEN workers[w].session ELSE None])
    /\ touched' = load(FS, session_id, UnknownId, now).touched
    /\ UNCHANGED <<store, now, pc, ctx, sess, env, trace, agent_results, last, export_log,
                   presentations, progress, queues, task, stream>>


\* the worker's call has produced outcome o from the copy it loaded: the file
\* of the session is overwritten with the whole in-memory copy
WorkerWrites(w, o) ==
    /\ store' = IF o.exc = "none"
                THEN Put(store, workers[w].id \o <<".json">>, o.store[workers[w].id \o <<".json">>])
                ELSE store
    /\ touched' = o.touched
    /\ export_log' = o.export
    /\ workers' = [workers EXCEPT ![w].pc = "idle", ![w].session = o.session]
    /\ last' = Done(workers[w].call.op, o.exc, o.error, workers[w].id, [worker |-> w])
    /\ now' = now + 1
    /\ UNCHANGED <<pc, ctx, sess, env, trace, agent_results,
                   presentations, progress, queues, task, stream>>

\* a write of only the fields the call has changed
WorkerMerges(w, o) ==
    LET file == workers[w].id \o <<".json">>
    IN  /\ store' = IF o.exc = "none"
                    THEN Put(store, file,
                             [f \in DOMAIN o.store[file] |->
                                 IF o.store[file][f] = workers[w].loaded[file][f]
                                    /\ file \in DOMAIN store
                                 THEN store[file][f] ELSE o.store[file][f]])
                    ELSE store
        /\ touched' = o.touched
        /\ export_log' = o.export
        /\ workers' = [workers EXCEPT ![w].pc = "idle", ![w].session = o.session]
        /\ last' = Done(workers[w].call.op, o.exc, o.error, workers[w].id, [worker |-> w])
        /\ now' = now + 1
        /\ UNCHANGED <<pc, ctx, sess, env, trace, agent_results,
                       presentations, progress, queues, task, stream>>


\* WorkerSave that merges its changes into the stored session
WorkerSave_merges(w) ==
    /\ pc = "idle"
    /\ now < MaxClock
    /\ ~WorkerIdle(w)
    /\ WorkerMerges(w, RunCall(workers[w].call, workers[w].id,
                               [store |-> workers[w].loaded, touched |-> touched], now))

\* the rest of the call of worker w: it modifies the copy it loaded, re-exports
\* and overwrites the session file with that copy
WorkerSave(w) ==
    /\ pc = "idle"
    /\ now < MaxClock
    /\ ~WorkerIdle(w)
    /\ WorkerWrites(w, RunCall(workers[w].call, workers[w].id,
                               [store |-> workers[w].loaded, touched |-> touched], now))

NextRace ==
    \/ \E uuid \in FreshIds \cap {GenIds[1]} :
          CreateStart("Quantum", "bold_signal", None, "", <<>>, uuid)
    \/ \E answer \in {a \in ResearchAnswers : a.synth} : Research(answer)
    \/ \E answer \in {a \in CuratorAnswers : a.slides = DeckGood} : Curate(answer)
    \/ \E answer \in {a \in StyleAnswers : a.llm.kind = "raise" /\ ~a.template_ok} : Style(answer)
    \/ \E bad \in {{}} : Export(bad)
    \/ \E w \in Workers, call \in Calls, session_id \in StoredIds :
          WorkerLoad(w, call, session_id)
    \/ \E w \in Workers : WorkerSave(w)

SpecRace == InitCommon /\ [][NextRace]_vars

\* ---- the style phase under every style name, template, mood and LLM answer
StyleNames == {"", "bold_signal", "made_up", LongStyleName}

Moods == {"", "calm", "very calm", "zzz"}

StyleLLM ==
    {[kind |-> "raise", names |-> <<>>], [kind |-> "garbage", names |-> <<>>],
     [kind |-> "object", names |-> <<>>], [kind |-> "array", names |-> <<"made_up">>],
     [kind |-> "array", names |-> <<"made_up", "neon_cyber">>]}

StyleAnswersAll == {[template_ok |-> ok, llm |-> l] : ok \in BOOLEAN, l \in StyleLLM}

NextStyle ==
    \/ \E style_name \in StyleNames, pptx_template \in {None, "brand.pptx"}, mood \in Moods,
          uuid \in FreshIds \cap {GenIds[1]} :
          CreateStart("Quantum", style_name, pptx_template, mood, <<>>, uuid)
    \/ \E answer \in {a \in ResearchAnswers : a.synth} : Research(answer)
    \/ \E answer \in {a \in CuratorAnswers : a.slides = DeckGood} : Curate(answer)
    \/ \E answer \in StyleAnswersAll : Style(answer)
    \/ \E bad \in {{}} : Export(bad)

SpecStyle == InitCommon /\ [][NextStyle]_vars

\* ================================================== properties of SpecCreate
FullTrace == <<"save", "research", "curate", "style", "export", "save">>

Ran(phase) == phase \in DOMAIN agent_results

\* the file of the session of the create_presentation call in flight or just ended
RunFile == sess.id \o <<".json">>

\* C1: when the Curator returns success=false, create_presentation raises an
\* error that carries the Curator's error, neither the style nor the export
\* phase runs, and the session stored under the generated id has no output
\* paths and no slides.
C1_CuratorFailureAborts ==
    (Ran("curate") /\ ~agent_results["curate"].success) =>
        /\ pc = "idle"
        /\ last.op = "create" /\ last.exc = "RuntimeError"
        /\ last.error = <<"Curation failed: ">> \o agent_results["curate"].error
        /\ last.id = sess.id
        /\ "style" \notin Range(trace) /\ "export" \notin Range(trace)
        /\ ~Ran("style")
        /\ export_log = NoExport
        /\ RunFile \in DOMAIN store
        /\ store[RunFile].output_paths = EmptyMap
        /\ store[RunFile].slides = <<>>

C1_Witness ==
    /\ Ran("curate") /\ ~agent_results["curate"].success
    /\ agent_results["research"].success
    /\ env["curate"].kind = "garbage"
    /\ last.exc = "RuntimeError"

\* C2: when the Researcher returns success=false the pipeline goes on with an
\* empty research mapping, the Curator still issues its LLM call, and when
\* that call returns a parsable slide array the run returns a session with slides.
C2_ResearchFailureTolerated ==
    (Ran("curate") /\ ~agent_results["research"].success) =>
        /\ agent_results["curate"].llm = 1
        /\ (env["curate"].kind \in {"array", "object_slides"} /\ env["curate"].slides # <<>>)
              => /\ agent_results["curate"].success
                 /\ (pc = "idle" => last.exc = "none" /\ sess.slides # <<>>)

\* C3: the new session is written to the store before the research phase
\* starts, so whatever the later phases do, a session with the generated id,
\* the topic and the initial inputs can be loaded.
C3_SessionStoredBeforeResearch ==
    (trace # <<>>) =>
        /\ trace[1] = "save"
        /\ LET l == load(FS, sess.id, UnknownId, now)
           IN  /\ l.exc = "none"
               /\ l.session.id = sess.id
               /\ l.session.topic = ctx.topic
               /\ l.session.purpose = ctx.purpose
               /\ l.session.urls = ctx.urls
               /\ l.session.files = ctx.files
               /\ l.session.mood = ctx.mood
               /\ l.session.audience = ctx.audience
               /\ l.session.slide_count = ctx.slide_count
               /\ l.session.output_formats = ctx.output_formats
               /\ l.session.created_at = sess.created_at

C3_Witness ==
    /\ pc = "idle" /\ last.op = "create" /\ last.exc = "RuntimeError"
    /\ load(FS, sess.id, UnknownId, now).exc = "none"
    /\ store[RunFile].topic = "Quantum"

\* C7 as stated: once a phase has completed, the stored session already
\* contains that phase's result.
C7_StoredAfterEveryPhase ==
    (trace # <<>> /\ RunFile \in DOMAIN store) =>
        /\ (Ran("research") /\ agent_results["research"].success)
              => store[RunFile].research_data = agent_results["research"].data
        /\ (Ran("curate") /\ agent_results["curate"].success)
              => store[RunFile].slides = agent_results["curate"].data.slides
        /\ Ran("style")
              => store[RunFile].style_name = agent_results["style"].data.recommended_style
        /\ "export" \in Range(trace)
              => store[RunFile].output_paths = export_log.results

\* C7 amended: the session is persisted when it is created and once more after
\* the export phase.  Until that final save the stored session holds only the
\* initial inputs, whatever the phases have produced in memory; once the call
\* has returned, the stored session holds the results of all four phases.
C7_StoredAtCreationAndAtReturn ==
    (trace # <<>>) =>
        /\ RunFile \in DOMAIN store
        /\ IF "export" \in Range(trace)
           THEN /\ store[RunFile] = to_dict(sess)
                /\ store[RunFile].research_data =
                      IF agent_results["research"].success
                      THEN agent_results["research"].data ELSE EmptyMap
                /\ store[RunFile].slides = agent_results["curate"].data.slides
                /\ store[RunFile].presentation_title = agent_results["curate"].data.presentation_title
                /\ store[RunFile].style_name = agent_results["style"].data.recommended_style
                /\ store[RunFile].output_paths = export_log.results
           ELSE /\ store[RunFile].research_data = EmptyMap
                /\ store[RunFile].slides = <<>>
                /\ store[RunFile].presentation_title = ""
                /\ store[RunFile].style_name = ""
                /\ store[RunFile].custom_preset = None
                /\ store[RunFile].output_paths = EmptyMap
                /\ store[RunFile].updated_at = sess.created_at

C7_Witness ==
    /\ pc = "idle" /\ last.op = "create" /\ last.exc = "RuntimeError"
    /\ agent_results["research"].success
    /\ sess.research_data # EmptyMap
    /\ store[RunFile].research_data = EmptyMap

\* C8: the phases of one call run in the order research, curate, style, export,
\* each at most once; a phase starts only when the result of the phase before
\* it is in the context; a call that returns a session has run all four
\* phases once each and then saved the session.
C8_PhasesInOrderOnce ==
    /\ IsPrefix(trace, FullTrace)
    /\ pc = "research" => trace = SubSeq(FullTrace, 1, 1)
    /\ pc = "curate" =>
          /\ trace = SubSeq(FullTrace, 1, 2)
          /\ ctx.research_data = IF agent_results["research"].success
                                 THEN agent_results["research"].data ELSE EmptyMap
    /\ pc = "style" =>
          /\ trace = SubSeq(FullTrace, 1, 3)
          /\ agent_results["curate"].success
          /\ ctx.slides = agent_results["curate"].data.slides
          /\ ctx.presentation_title = agent_results["curate"].data.presentation_title
    /\ pc = "export" =>
          /\ trace = SubSeq(FullTrace, 1, 4)
          /\ ctx.style_name = agent_results["style"].data.recommended_style
    /\ (pc = "idle" /\ last.op = "create" /\ last.exc = "none") =>
          /\ trace = FullTrace
          /\ DOMAIN agent_results = {"research", "curate", "style"}
          /\ store[RunFile] = to_dict(sess)

C8_Witness ==
    /\ pc = "idle" /\ last.op = "create" /\ last.exc = "none"
    /\ trace = FullTrace
    /\ sess.slides # <<>>

\* C11 as stated: whenever the Curator returns success, the slide list it
\* returns is non-empty, starts with a "title" slide and ends with a "closing"
\* slide.
C11_CuratedDeckWellFormed ==
    (Ran("curate") /\ agent_results["curate"].success) =>
        LET slides == agent_results["curate"].data.slides
        IN  /\ slides # <<>>
            /\ slides[1].type = "title"
            /\ slides[Len(slides)].type = "closing"

\* C12 as stated: when the Researcher, the Curator and the StyleRecommender all
\* succeed, the session create_presentation returns holds exactly slide_count
\* slides.
C12_ExactlySlideCountSlides ==
    (/\ pc = "idle" /\ last.op = "create" /\ last.exc = "none"
     /\ agent_results["research"].success
     /\ agent_results["curate"].success
     /\ agent_results["style"].success) =>
        Len(sess.slides) = ctx.slide_count

\* ==================================================== properties of SpecStyle
\* C13 as stated: the StyleRecommender returns success with a non-empty recommended
\* style whatever the style name, the template, the mood and the LLM do, so
\* the style phase never aborts create_presentation and leaves a non-empty
\* style name in the session.
C13_StyleNeverFails ==
    ("style" \in Range(trace)) =>
        /\ Ran("style")
        /\ agent_results["style"].success
        /\ agent_results["style"].data.recommended_style # ""
        /\ pc \in {"export", "idle"}
        /\ sess.style_name = agent_results["style"].data.recommended_style
        /\ ctx.style_name = sess.style_name
        /\ pc = "idle" => last.op = "create" /\ last.exc = "none"

\* ========================================================= properties of Spec
File(session_id) == session_id \o <<".json">>

\* C4: an edit_presentation that fails raises, and leaves the stored sessions
\* exactly as they were: an invalid id is a ValueError, an unknown id a
\* FileNotFoundError, and an empty instruction, a session without slides and a
\* failing Editor are a RuntimeError; an edit succeeds only with an
\* instruction, on a session with slides, when the Editor's answer holds slides.
C4_FailedEditLeavesStore ==
    [][(pc = "idle" /\ last'.op = "edit") =>
          /\ last'.exc # "none" =>
                /\ store' = store
                /\ last'.exc = IF ~SessionIdMatch(last'.id) THEN "ValueError"
                               ELSE IF File(last'.id) \notin DOMAIN store THEN "FileNotFoundError"
                               ELSE "RuntimeError"
          /\ last'.exc = "none" =>
                /\ last'.arg.instruction # ""
                /\ File(last'.id) \in DOMAIN store
                /\ store[File(last'.id)].slides # <<>>
                /\ last'.arg.resp.kind \in {"object_slides", "array"}]_vars

C4_Witness ==
    /\ last.op = "edit" /\ last.exc = "RuntimeError"
    /\ last.error = <<"Edit failed: ", "Edit failed: ", "LLMError">>
    /\ File(last.id) \in DOMAIN store
    /\ store[File(last.id)].slides # <<>>
    /\ store[File(last.id)].edit_history # <<>>

\* C9: a successful edit_presentation appends exactly one entry, carrying the
\* caller's instruction, to the stored edit history, and no operation removes,
\* reorders or rewrites an entry that was already stored.
C9_HistoryAppendOnly ==
    [][/\ \A f \in (DOMAIN store) \cap (DOMAIN store') :
              IsPrefix(store[f].edit_history, store'[f].edit_history)
       /\ (pc = "idle" /\ last'.op = "edit" /\ last'.exc = "none") =>
              LET old == store[File(last'.id)].edit_history
                  new == store'[File(last'.id)].edit_history
              IN  /\ Len(new) = Len(old) + 1
                  /\ new[Len(new)].instruction = last'.arg.instruction
       /\ (pc = "idle" /\ last'.op \in {"load", "save", "export_formats"}) =>
              \A f \in (DOMAIN store) \cap (DOMAIN store') :
                  store'[f].edit_history = store[f].edit_history]_vars

C9_Witness ==
    /\ last.op = "edit" /\ last.exc = "none"
    /\ LET h == store[File(last.id)].edit_history
       IN  /\ Len(h) >= 2
           /\ h[Len(h)].instruction = "merge slides 2 and 3"
           /\ h[Len(h) - 1].timestamp < h[Len(h)].timestamp

\* C10: after a successful edit_presentation the stored slides are the
\* validated form of the slides the Editor's model returned; a deck of two or
\* more slides starts with a "title" slide and ends with a "closing" slide.
C10_EditedSlidesValidated ==
    (last.op = "edit" /\ last.exc = "none") =>
        LET slides == store[File(last.id)].slides
        IN  /\ Len(slides) = Len(last.arg.resp.slides)
            /\ \A i \in DOMAIN slides :
                  /\ slides[i].type \in VALID_SLIDE_TYPES
                  /\ slides[i].title \notin {Absent, ""}
                  /\ Len(slides[i].bullets) <= MaxBullets
            /\ Len(slides) >= 2 =>
                  /\ slides[1].type = "title"
                  /\ slides[Len(slides)].type = "closing"

C10_Witness ==
    /\ last.op = "edit" /\ last.exc = "none"
    /\ last.arg.resp.slides = DeckBad
    /\ store[File(last.id)].slides[1].type = "title"
    /\ store[File(last.id)].slides[3].type = "closing"

\* =================================================== properties of SpecExport
Requested(fmt) ==
    \E i \in DOMAIN export_log.formats : lower_strip(export_log.formats[i]) = fmt

CallsOf(exporter) == SelectSeq(export_log.calls, LAMBDA c : c.exporter = exporter)

\* C5: for every requested format among html, pptx and pdf the result map of
\* export_all holds one entry: the produced path when the format's exporter
\* succeeded, a string starting with "ERROR" when it raised; a failing format
\* does not keep later formats from being attempted; other formats get no entry.
C5_ExportIsolation ==
    (export_log.formats # <<>>) =>
        /\ DOMAIN export_log.results = {fmt \in EXPORTERS : Requested(fmt)}
        /\ \A fmt \in DOMAIN export_log.results :
              LET calls == CallsOf(fmt)
                  attempted == calls # <<>> \/ (fmt = "pdf" /\ CallsOf("html") # <<>>)
                  succeeded == calls # <<>> /\ calls[Len(calls)].ok
              IN  /\ attempted
                  /\ export_log.results[fmt] =
                        IF succeeded
                        THEN resolve(export_log.output_dir \o <<file_name(fmt)>>)
                        ELSE error_marker
                  /\ (fmt \in export_log.bad) => is_error(export_log.results[fmt])

C5_Witness ==
    /\ export_log.formats = <<"html", "docx", "pptx">>
    /\ export_log.bad = {"html"}
    /\ is_error(export_log.results["html"])
    /\ export_log.results["pptx"] = <<"", "out", "deck.pptx">>
    /\ "docx" \notin DOMAIN export_log.results

\* ==================================================== properties of SpecStore
IsHexId(session_id) ==
    /\ Len(session_id) \in 1..MaxIdLen
    /\ \A i \in DOMAIN session_id : session_id[i] \in HexChars

\* C6: load, save and delete answer every id that is not 1 to 32 lowercase hex
\* characters with a ValueError and build no path for it, so every file the
\* store touches is <hex-id>.json; load of a well-formed id without a file is
\* a FileNotFoundError.
C6_OnlyHexIdsReachFiles ==
    /\ \A f \in touched :
          /\ Len(f) >= 2
          /\ f[Len(f)] = ".json"
          /\ IsHexId(SubSeq(f, 1, Len(f) - 1))
    /\ (last.op \in {"load", "save", "delete"} /\ ~IsHexId(last.id)) => last.exc = "ValueError"
    /\ (last.op = "load" /\ IsHexId(last.id) /\ File(last.id) \notin DOMAIN store)
          => last.exc = "FileNotFoundError"

\* C17: from_dict(to_dict(s)) equals s field for field, and a session loaded
\* directly after a save equals the session object that was saved; checked on
\* the session a client has just saved again and on the session
\* create_presentation has just saved and returned.
C17_RoundTrip ==
    /\ (last.op = "save" /\ last.exc = "none") =>
          /\ from_dict(to_dict(last.arg), GenIds[2], now) = last.arg
          /\ load(FS, last.id, GenIds[2], now).session = last.arg
    /\ (pc = "idle" /\ last.op = "create" /\ last.exc = "none" /\ trace = FullTrace) =>
          /\ from_dict(to_dict(sess), GenIds[2], now) = sess
          /\ load(FS, sess.id, GenIds[2], now).session = sess

C17_Witness ==
    /\ last.op = "save" /\ last.exc = "none"
    /\ Len(last.arg.edit_history) >= 1
    /\ last.arg.slides # <<>>
    /\ "raw_sources" \in DOMAIN last.arg.research_data
    /\ "html" \in DOMAIN last.arg.output_paths
    /\ last.arg.created_at < last.arg.updated_at
    /\ last.arg.updated_at < now

\* C18: no operation changes the id or the created_at of a stored session, a
\* stored session's id is its file's name, constructing or loading a session
\* from a document that carries timestamps keeps them (checked on every
\* document as it is written), and updated_at moves only to the current time,
\* so it never decreases.
C18_IdentityAndTimestamps ==
    [][/\ \A f \in (DOMAIN store) \cap (DOMAIN store') :
              /\ store'[f].id = store[f].id
              /\ store'[f].created_at = store[f].created_at
              /\ store'[f].updated_at >= store[f].updated_at
              /\ store'[f].updated_at # store[f].updated_at => store'[f].updated_at = now
       /\ \A f \in {g \in DOMAIN store' : g \notin DOMAIN store \/ store'[g] # store[g]} :
              /\ File(store'[f].id) = f
              /\ store'[f].created_at <= store'[f].updated_at
              /\ LET built == PresentationSession(store'[f], GenIds[2], now')
                     loaded == from_dict(store'[f], GenIds[2], now')
                 IN  /\ built.id = store'[f].id /\ loaded.id = store'[f].id
                     /\ built.created_at = store'[f].created_at
                     /\ built.updated_at = store'[f].updated_at
                     /\ loaded.created_at = store'[f].created_at
                     /\ loaded.updated_at = store'[f].updated_at
       /\ (pc = "idle" /\ last'.op = "load" /\ last'.exc = "none") =>
              /\ last'.arg.id = last'.id
              /\ last'.arg.created_at = store[File(last'.id)].created_at
              /\ last'.arg.updated_at = store[File(last'.id)].updated_at]_vars

C18_Witness ==
    /\ last.op = "save" /\ last.exc = "none"
    /\ File(last.id) \in DOMAIN store
    /\ LET d == store[File(last.id)]
       IN  /\ d.created_at = 1
           /\ d.updated_at = now - 1
           /\ d.updated_at >= 4
           /\ Len(d.edit_history) >= 1

\* ================================================= properties of SpecValidate
\* C14: validate_slides is idempotent: validating the list it returned gives
\* that same list back.
C14_ValidateIdempotent ==
    (last.op = "validate_again") => last.arg.ret = last.arg.slides

C14_Witness ==
    /\ last.op = "validate_again"
    /\ Len(last.arg.slides) = 1
    /\ last.arg.ret[1].type = "closing"
    /\ Len(last.arg.ret[1].cards) = MaxCards

\* C15: validate_slides returns the empty list as it came; of two or more
\* slides it makes the first a "title" and the last a "closing" slide; a single
\* slide ends as "closing".
C15_TitleFirstClosingLast ==
    (last.op = "validate_slides") =>
        LET S == last.arg.slides
            V == last.arg.ret
        IN  /\ Len(V) = Len(S)
            /\ S = <<>> => V = <<>>
            /\ Len(S) >= 2 => V[1].type = "title" /\ V[Len(V)].type = "closing"
            /\ Len(S) = 1 => V[1].type = "closing"

C15_Witness ==
    /\ last.op = "validate_slides"
    /\ Len(last.arg.slides) = 1
    /\ last.arg.slides[1].type = "title"
    /\ last.arg.ret[1].type = "closing"

\* C16: validate_slides keeps of every slide the first min(n, 6) of its n
\* bullets and the first min(n, 6) of its n cards, in their order, and every
\* card it keeps has a title and a description, "" where it had none.
C16_BulletsAndCardsCapped ==
    (last.op = "validate_slides") =>
        \A i \in DOMAIN last.arg.slides :
            LET s == last.arg.slides[i]
                v == last.arg.ret[i]
                nb == IF Len(s.bullets) < 6 THEN Len(s.bullets) ELSE 6
                nc == IF Len(s.cards) < 6 THEN Len(s.cards) ELSE 6
            IN  /\ Len(v.bullets) = nb
                /\ \A k \in 1..nb : v.bullets[k] = s.bullets[k]
                /\ Len(v.cards) = nc
                /\ \A k \in 1..nc :
                      /\ v.cards[k].title = IF s.cards[k].title = Absent THEN ""
                                            ELSE s.cards[k].title
                      /\ v.cards[k].description = IF s.cards[k].description = Absent THEN ""
                                                  ELSE s.cards[k].description

C16_Witness ==
    /\ last.op = "validate_slides"
    /\ \E i \in DOMAIN last.arg.slides :
          /\ Len(last.arg.slides[i].cards) = MaxCards + 1
          /\ Len(last.arg.ret[i].cards) = MaxCards
          /\ last.arg.ret[i].cards[2].title = ""
    /\ \E i \in DOMAIN last.arg.slides :
          /\ Len(last.arg.slides[i].bullets) = MaxBullets + 1
          /\ last.arg.ret[i].bullets = <<1, 2, 3, 4, 5, 6>>

\* C19 as stated: latest() returns the stored session whose updated_at is the
\* greatest of all stored sessions, and nothing when the store is empty.
C19_LatestIsMostRecentlyUpdated ==
    (last.op = "latest" /\ \A f \in DOMAIN store : IsHexId(store[f].id)) =>
        IF DOMAIN store = {} THEN last.id = <<>>
        ELSE /\ last.exc = "none"
             /\ last.id # <<>>
             /\ \A f \in DOMAIN store : store[f].updated_at <= last.arg.updated_at

\* ================================================= properties of SpecReexport
\* C20: a successful export_formats leaves the session's slides, title, style
\* name, custom preset, research data and edit history as they were; the
\* stored output_paths is the previous map overridden by the results of this
\* export, and the stored output_formats holds, as a set, the previous
\* formats and the requested ones.
C20_ReexportFrame ==
    [][(pc = "idle" /\ last'.op = "export_formats" /\ last'.exc = "none" /\ now' = now + 1) =>
          LET old == store[File(last'.id)]
              new == store'[File(last'.id)]
              results == export_log'.results
          IN  /\ new.slides = old.slides
              /\ new.presentation_title = old.presentation_title
              /\ new.style_name = old.style_name
              /\ new.custom_preset = old.custom_preset
              /\ new.research_data = old.research_data
              /\ new.edit_history = old.edit_history
              /\ export_log'.formats = last'.arg.formats
              /\ export_log'.output_dir = last'.arg.output_dir
              /\ DOMAIN new.output_paths = (DOMAIN old.output_paths) \cup (DOMAIN results)
              /\ \A fmt \in DOMAIN new.output_paths :
                    new.output_paths[fmt] = IF fmt \in DOMAIN results THEN results[fmt]
                                            ELSE old.output_paths[fmt]
              /\ Range(new.output_formats) =
                    Range(old.output_formats) \cup Range(last'.arg.formats)]_vars

C20_Witness ==
    /\ last.op = "export_formats" /\ last.exc = "none"
    /\ last.arg.formats = <<"pdf">> /\ last.arg.output_dir = OutDir
    /\ LET d == store[File(last.id)]
       IN  /\ d.slides = DeckGood
           /\ d.output_paths["html"] = <<"", "cwd", "deck.html">>
           /\ d.output_paths["pdf"] = <<"", "out", "deck.pdf">>
           /\ Range(d.output_formats) = {"html", "pptx", "pdf"}

\* ================================================== properties of SpecRestyle
ChangeStyleStep == pc = "idle" /\ last'.op = "change_style" /\ now' = now + 1

C23_EditEntryNamesStoredStyle ==
    [][(ChangeStyleStep /\ last'.exc = "none") =>
          LET old == store[File(last'.id)]
              new == store'[File(last'.id)]
              entry == new.edit_history[Len(new.edit_history)]
          IN  /\ Len(new.edit_history) = Len(old.edit_history) + 1
              /\ entry.summary = <<"Style updated to ", new.style_name>>
              /\ \/ entry.instruction = <<"Changed style to ", new.style_name>>
                 \/ /\ new.style_name = "custom"
                    /\ entry.instruction = <<"Changed style to ", "custom PPTX template">>]_vars

\* C27: once a stored session has slides, every later stored state of that
\* session has a non-empty slide list.
C27_SlidesNeverEmptied ==
    [][\A f \in DOMAIN store \cap DOMAIN store' :
          store[f].slides # <<>> => store'[f].slides # <<>>]_vars

\* C28: in every stored session a non-null custom preset implies the style
\* name "custom".
C28_CustomPresetImpliesCustomStyle ==
    \A f \in DOMAIN store :
        store[f].custom_preset # None => store[f].style_name = "custom"

C28_Witness ==
    /\ last.op = "edit" /\ last.exc = "none"
    /\ store[File(last.id)].custom_preset = "custom_template"
    /\ store[File(last.id)].style_name = "custom"
    /\ Len(store[File(last.id)].edit_history) >= 2

\* C29: a re-export by edit_presentation or change_style writes each
\* regenerated format into the directory that holds the session's existing
\* output of that format.
C29_ReexportKeepsDirectory ==
    [][(pc = "idle" /\ last'.op \in {"edit", "change_style"} /\ last'.exc = "none"
            /\ now' = now + 1) =>
          LET old == store[File(last'.id)].output_paths
              new == store'[File(last'.id)].output_paths
          IN  \A fmt \in DOMAIN old \cap DOMAIN new :
                  (~is_error(old[fmt]) /\ ~is_error(new[fmt])) =>
                      rsplit_head(new[fmt]) = rsplit_head(old[fmt])]_vars

\* ================================================== properties of SpecExport
\* C24: whenever export_all invokes the pdf exporter, an html export has
\* succeeded earlier in the same call and the path handed to the pdf exporter
\* is the path of that html artifact.
C24_PdfAfterHtmlArtifact ==
    \A i \in DOMAIN export_log.calls :
        export_log.calls[i].exporter = "pdf" =>
            \E j \in 1..(i - 1) :
                /\ export_log.calls[j].exporter = "html"
                /\ export_log.calls[j].ok
                /\ resolve(export_log.calls[j].arg) = resolve(export_log.calls[i].arg)

\* =================================================== properties of SpecStyle
\* C25: when the StyleRecommender's LLM call fails or its output cannot be
\* parsed, the recommendations are those of the mood lookup: the presets of
\* the context's mood (exact key, else substring match, else the default
\* triple; the default triple when no mood was given).
C25_FallbackIsMoodLookup ==
    (/\ Ran("style")
     /\ agent_results["style"].llm = 1
     /\ env["style"].llm.kind \in {"raise", "garbage"}) =>
        agent_results["style"].data.recommendations =
            build_fallback_recommendations(
                IF ctx.mood # "" THEN presets_for_mood(ctx.mood) ELSE DefaultTriple)

\* ================================================ properties of SpecResearch
PseudoSource == [type |-> "llm_knowledge", source |-> "LLM general knowledge"]

\* C22: Researcher.run succeeds exactly when the synthesis succeeds, whatever
\* URLs, files and web search yielded or raised; every item that yielded
\* content is a source whatever the other items did; the source list handed to
\* the synthesis is never empty, and it is the single prior-knowledge
\* pseudo-source exactly when no item yielded content.
C22_SuccessIffSynthesis ==
    last.op = "researcher_run" =>
        LET answer == env["research"]
            result == agent_results["research"]
            sources == last.arg.sources
            yielded == {[type |-> "url", source |-> ctx.urls[i]] :
                            i \in {k \in DOMAIN ctx.urls : answer.url[k] = "content"}}
                       \cup {[type |-> "file", source |-> ctx.files[i]] :
                            i \in {k \in DOMAIN ctx.files : answer.file[k] = "content"}}
                       \cup (IF answer.search = "content"
                             THEN {[type |-> "web_search", source |-> ctx.topic]} ELSE {})
        IN  /\ result.success = answer.synth
            /\ sources # <<>>
            /\ (sources = <<PseudoSource>>) = (yielded = {})
            /\ yielded # {} => (Range(sources) = yielded /\ Len(sources) = Cardinality(yielded))
            /\ result.success => result.data.raw_sources = sources

C22_Witness ==
    /\ last.op = "researcher_run"
    /\ agent_results["research"].success
    /\ Len(ctx.urls) = 2 /\ env["research"].url = <<"raise", "content">>
    /\ Len(ctx.files) = 1 /\ env["research"].file = <<"raise">>
    /\ env["research"].search = "raise"
    /\ last.arg.sources = <<[type |-> "url", source |-> "u2"]>>

C22_WitnessNoSource ==
    /\ last.op = "researcher_run"
    /\ agent_results["research"].success
    /\ env["research"].url = <<"raise", "empty">>
    /\ env["research"].search = "raise"
    /\ last.arg.sources = <<PseudoSource>>

\* ================================================== properties of SpecStream
Terminal(event) == event.stage \in {"completed", "error"}

\* C30: once process_presentation has started, it ends only after it has put a
\* terminal event ("completed" or "error") on the record's queue, whatever
\* delete_presentation does in between.
C30_TaskEndsWithTerminalEvent ==
    task.pc \in {"ended", "raised"} =>
        \E event \in Range(queues[QueueObject]) \cup Range(stream.received) : Terminal(event)

\* a client that streams the record stops once the task is over
C30_ClientStops ==
    (stream.pc = "waiting") ~> (stream.pc = "stopped")

SpecStreamFair ==
    SpecStream /\ WF_vars(ProcessStart) /\ WF_vars(ProcessAnalyze)
               /\ WF_vars(\E ok \in BOOLEAN : ProcessCurating(ok))
               /\ WF_vars(ProcessStyling) /\ WF_vars(ProcessExporting)
               /\ WF_vars(EventGeneratorStart) /\ WF_vars(EventGeneratorGet)

\* ==================================================== properties of SpecRace
\* C26: when two calls on one session run side by side, each loading the
\* session and later overwriting its file, the stored session is, after every
\* save and whatever the interleaving, the whole in-memory copy of the call
\* that saved last, and the save leaves every other file alone.
C26_LastWriteWins ==
    [][\A w \in DOMAIN workers :
          (workers[w].pc = "loaded" /\ workers'[w].pc = "idle" /\ last'.exc = "none") =>
              /\ store'[File(workers[w].id)] = to_dict(workers'[w].session)
              /\ \A f \in DOMAIN store' \ {File(workers[w].id)} :
                    f \in DOMAIN store /\ store'[f] = store[f]
              /\ \A f \in DOMAIN store : f \in DOMAIN store']_vars

\* both calls loaded the same stored session, both saved, and the edit of the
\* first to save is gone from the stored session
C26_Witness ==
    /\ DOMAIN workers = Workers
    /\ \A w \in Workers : workers[w].pc = "idle"
    /\ workers[1].loaded = workers[2].loaded
    /\ workers[1].call.op = "edit" /\ workers[2].call.op = "change_style"
    /\ last.op = "change_style" /\ last.exc = "none" /\ last.arg.worker = 2
    /\ store[File(last.id)] = to_dict(workers[2].session)
    /\ store[File(last.id)].slides # workers[1].session.slides
    /\ store[File(last.id)].style_name # workers[1].session.style_name
    /\ Len(store[File(last.id)].edit_history) = 1

====
